---- MODULE Spec2Model ----
(***************************************************************************)
(* Duplicate detection and relaying of the Telegram channel monitor.       *)
(*                                                                         *)
(* Mode A is src/next.py (MessageDuplicateChecker and the copy_message     *)
(* handler); Mode B is src/telegram_monitor/telegram_monitor.py            *)
(* (TelegramMonitor) with its TextProcessor and MessageData.               *)
(*                                                                         *)
(* Texts are TLA+ strings.  Ch(s, i) is the i-th character; the regular    *)
(* expressions of the source are written out as scans over characters.     *)
(* Similarities are exact fractions <<numerator, denominator>>; the floats *)
(* the source compares are quotients of small integers, for which the      *)
(* comparison of fractions and the comparison of doubles agree.            *)
(***************************************************************************)
EXTENDS Integers, Sequences, FiniteSets, TLC

(***************************************************************************)
(* Characters and the character classes of Python's re module (ASCII part) *)
(***************************************************************************)

LowerLetters == "abcdefghijklmnopqrstuvwxyz"

UpperLetters == "ABCDEFGHIJKLMNOPQRSTUVWXYZ"

Ch(s, i) == SubSeq(s, i, i)

CharsOf(s) == { Ch(s, i) : i \in 1..Len(s) }

LowerChars == CharsOf(LowerLetters)

UpperChars == CharsOf(UpperLetters)

DigitChars == CharsOf("0123456789")

\* \w : letters, digits and the underscore
WordChars == LowerChars \cup UpperChars \cup DigitChars \cup {"_"}

\* \s : whitespace
SpaceChars == {" ", "\n", "\t", "\r"}

IsWordChar(c) == c \in WordChars

IsSpaceChar(c) == c \in SpaceChars

\* str.lower() on one character
LowerChar(c) ==
    IF c \in UpperChars
    THEN Ch(LowerLetters, CHOOSE i \in 1..Len(UpperLetters) : Ch(UpperLetters, i) = c)
    ELSE c

RECURSIVE MapLower(_)
\* str.lower()
MapLower(s) == IF s = "" THEN "" ELSE LowerChar(Head(s)) \o MapLower(Tail(s))

Max(a, b) == IF a >= b THEN a ELSE b

Min(a, b) == IF a <= b THEN a ELSE b

RECURSIVE RunLen(_, _, _)
\* Length of the longest run of characters of s, starting at position i, that
\* are in the class (wordRun: \w, otherwise \S).
RunLen(s, i, wordRun) ==
    IF i > Len(s) THEN 0
    ELSE IF (wordRun /\ IsWordChar(Ch(s, i))) \/ (~wordRun /\ ~IsSpaceChar(Ch(s, i)))
         THEN 1 + RunLen(s, i + 1, wordRun)
         ELSE 0

RECURSIVE SubPrefixRun(_, _, _)
\* re.sub(prefix + class + '+', '', s): every leftmost, non-overlapping match
\* of the literal prefix followed by one or more characters of the class is
\* removed; the class run is greedy.
SubPrefixRun(s, prefix, wordRun) ==
    IF s = "" THEN ""
    ELSE LET p == Len(prefix)
             n == IF Len(s) >= p /\ SubSeq(s, 1, p) = prefix
                  THEN RunLen(s, p + 1, wordRun)
                  ELSE 0
         IN  IF n > 0
             THEN SubPrefixRun(SubSeq(s, p + n + 1, Len(s)), prefix, wordRun)
             ELSE Head(s) \o SubPrefixRun(Tail(s), prefix, wordRun)

RECURSIVE SplitWs(_, _)
\* str.split(): the maximal runs of non-whitespace characters, in order; cur is
\* the run being read.
SplitWs(s, cur) ==
    IF s = "" THEN (IF cur = "" THEN << >> ELSE << cur >>)
    ELSE IF IsSpaceChar(Head(s))
         THEN (IF cur = "" THEN << >> ELSE << cur >>) \o SplitWs(Tail(s), "")
         ELSE SplitWs(Tail(s), cur \o Head(s))

Split(s) == SplitWs(s, "")

RECURSIVE JoinWith(_, _)
\* sep.join(parts)
JoinWith(parts, sep) ==
    IF parts = << >> THEN ""
    ELSE IF Len(parts) = 1 THEN parts[1]
         ELSE parts[1] \o sep \o JoinWith(Tail(parts), sep)

\* ' '.join(text.split())
CollapseSpaces(s) == JoinWith(Split(s), " ")

RECURSIVE SubNonWordNonSpace(_)
\* re.sub(r'[^\w\s]', ' ', s)
SubNonWordNonSpace(s) ==
    IF s = "" THEN ""
    ELSE (IF IsWordChar(Head(s)) \/ IsSpaceChar(Head(s)) THEN Head(s) ELSE " ")
         \o SubNonWordNonSpace(Tail(s))

(***************************************************************************)
(* Mode A: MessageDuplicateChecker (src/next.py)                           *)
(***************************************************************************)

\* similarity_threshold = 0.8, as the fraction 4/5
similarity_threshold_num == 4

similarity_threshold_den == 5

\* window_hours = 1
window_hours == 1

SecondsPerHour == 3600

remove_hashtags(text) ==
    IF text = "" THEN ""
    ELSE CollapseSpaces(SubPrefixRun(text, "#", TRUE))

\* normalize_text removing links before the text is put in lower case
normalize_text_LinksBeforeLower(text) ==
    IF text = "" THEN ""
    ELSE LET t1 == remove_hashtags(text)
             t2 == SubPrefixRun(t1, "http", FALSE)
             t3 == MapLower(t2)
             t4 == SubPrefixRun(t3, "@", TRUE)
             t5 == SubNonWordNonSpace(t4)
         IN  CollapseSpaces(t5)

normalize_text(text) ==
    IF text = "" THEN ""
    ELSE LET t1 == remove_hashtags(text)
             t2 == MapLower(t1)
             t3 == SubPrefixRun(t2, "http", FALSE)
             t4 == SubPrefixRun(t3, "@", TRUE)
             t5 == SubNonWordNonSpace(t4)
         IN  CollapseSpaces(t5)

SeqToSet(q) == { q[i] : i \in 1..Len(q) }

\* calculate_similarity dividing by the first text's word count instead of
\* the union's
calculate_similarity_OverFirst(text1, text2) ==
    IF text1 = "" \/ text2 = "" THEN << 0, 1 >>
    ELSE LET words1 == SeqToSet(Split(text1))
             words2 == SeqToSet(Split(text2))
         IN  IF words1 = {} \/ words2 = {} THEN << 0, 1 >>
             ELSE << Cardinality(words1 \cap words2), Cardinality(words1) >>

\* calculate_similarity dividing by the sum of the two word counts instead
\* of the union's
calculate_similarity_SumOfCounts(text1, text2) ==
    IF text1 = "" \/ text2 = "" THEN << 0, 1 >>
    ELSE LET words1 == SeqToSet(Split(text1))
             words2 == SeqToSet(Split(text2))
         IN  IF words1 = {} \/ words2 = {} THEN << 0, 1 >>
             ELSE << Cardinality(words1 \cap words2),
                     Cardinality(words1) + Cardinality(words2) >>

\* The Jaccard coefficient as the fraction <<|intersection|, |union|>>;
\* <<0, 1>> is 0.0.
calculate_similarity(text1, text2) ==
    IF text1 = "" \/ text2 = "" THEN << 0, 1 >>
    ELSE LET words1 == SeqToSet(Split(text1))
             words2 == SeqToSet(Split(text2))
         IN  IF words1 = {} \/ words2 = {} THEN << 0, 1 >>
             ELSE << Cardinality(words1 \cap words2), Cardinality(words1 \cup words2) >>

\* a >= b on fractions with positive denominators
FracGE(a, b) == a[1] * b[2] >= b[1] * a[2]

\* a > b on fractions with positive denominators
FracGT(a, b) == a[1] * b[2] > b[1] * a[2]


\* cutoff_time = current_time - (self.window_hours * 3600)
cutoff_time(current_time) == current_time - (window_hours * SecondsPerHour)

\* clean_old_messages: the entries with msg[1] > cutoff_time, in order
clean_old_messages(cache, current_time) ==
    SelectSeq(cache, LAMBDA msg : msg.ts > cutoff_time(current_time))

\* Mutant of MeetsThresholdA: the strict comparison of Mode B.
MeetsThresholdA_Strict(similarity) ==
    FracGT(similarity, << similarity_threshold_num, similarity_threshold_den >>)

\* similarity >= self.similarity_threshold
MeetsThresholdA(similarity) ==
    FracGE(similarity, << similarity_threshold_num, similarity_threshold_den >>)

\* The loop of is_similar_message searching for the best match: the index of
\* the entry of greatest similarity among those that meet the threshold, the
\* first of them on a tie; 0 when there is none.
FirstSimilar_BestMatch(cache, new_normalized, i) ==
    LET hits == { k \in i..Len(cache) :
                    MeetsThresholdA(calculate_similarity(new_normalized, cache[k].norm)) }
    IN  IF hits = {} THEN 0
        ELSE CHOOSE k \in hits :
                \A j \in hits :
                    LET sk == calculate_similarity(new_normalized, cache[k].norm)
                        sj == calculate_similarity(new_normalized, cache[j].norm)
                    IN  FracGT(sk, sj) \/ (sk[1] * sj[2] = sj[1] * sk[2] /\ k <= j)

RECURSIVE FirstSimilar(_, _, _)
\* The for loop of is_similar_message: the index (from i on) of the first
\* cached entry whose similarity to new_normalized meets the threshold, 0 when
\* the loop ends without one.
FirstSimilar(cache, new_normalized, i) ==
    IF i > Len(cache) THEN 0
    ELSE IF MeetsThresholdA(calculate_similarity(new_normalized, cache[i].norm))
         THEN i
         ELSE FirstSimilar(cache, new_normalized, i + 1)

NoInfo == [similarity |-> << 0, 1 >>, original_text |-> ""]

\* Mutant of is_similar_message: the unique message is not recorded at
\* detection time.
is_similar_message_NoInsert(cache, new_text, current_time) ==
    LET cleaned        == clean_old_messages(cache, current_time)
        new_normalized == normalize_text(new_text)
        hit            == FirstSimilar(cleaned, new_normalized, 1)
    IN  [dup   |-> new_normalized # "" /\ hit > 0,
         info  |-> NoInfo,
         cache |-> cleaned]

\* Mutant of is_similar_message: the unique message is put at the front of
\* the cache instead of its end.
is_similar_message_InsertsFirst(cache, new_text, current_time) ==
    LET cleaned        == clean_old_messages(cache, current_time)
        new_normalized == normalize_text(new_text)
        hit            == FirstSimilar(cleaned, new_normalized, 1)
    IN  IF new_normalized = ""
        THEN [dup |-> FALSE, info |-> NoInfo, cache |-> cleaned]
        ELSE IF hit > 0
             THEN [dup   |-> TRUE,
                   info  |-> [similarity    |-> calculate_similarity(new_normalized,
                                                                     cleaned[hit].norm),
                              original_text |-> cleaned[hit].orig],
                   cache |-> cleaned]
             ELSE [dup   |-> FALSE,
                   info  |-> NoInfo,
                   cache |-> << [norm |-> new_normalized, ts |-> current_time,
                                 orig |-> new_text] >> \o cleaned]

\* is_similar_message(new_text, current_time): the verdict, the evidence and
\* the cache it leaves.
is_similar_message(cache, new_text, current_time) ==
    LET cleaned        == clean_old_messages(cache, current_time)
        new_normalized == normalize_text(new_text)
        hit            == FirstSimilar(cleaned, new_normalized, 1)
    IN  IF new_normalized = ""
        THEN [dup |-> FALSE, info |-> NoInfo, cache |-> cleaned]
        ELSE IF hit > 0
             THEN [dup   |-> TRUE,
                   info  |-> [similarity    |-> calculate_similarity(new_normalized,
                                                                     cleaned[hit].norm),
                              original_text |-> cleaned[hit].orig],
                   cache |-> cleaned]
             ELSE [dup   |-> FALSE,
                   info  |-> NoInfo,
                   cache |-> Append(cleaned, [norm |-> new_normalized,
                                              ts   |-> current_time,
                                              orig |-> new_text])]

(***************************************************************************)
(* Mode A: MessageFilter with the defaults of getattr(config, ..., [])     *)
(***************************************************************************)

blacklist_keywords == << >>

blacklist_patterns == << >>

RECURSIVE Contains(_, _)
\* keyword in text
Contains(text, keyword) ==
    IF Len(text) < Len(keyword) THEN FALSE
    ELSE IF SubSeq(text, 1, Len(keyword)) = keyword THEN TRUE
         ELSE Contains(Tail(text), keyword)

\* case_sensitive = False: keyword.lower() in text.lower()
should_filter_message(text) ==
    IF text = "" THEN FALSE
    ELSE \E k \in 1..Len(blacklist_keywords) :
            Contains(MapLower(text), MapLower(blacklist_keywords[k]))

(***************************************************************************)
(* Mode B: configuration (config.constants is not among the source files;  *)
(* the values are those the specification and the docstrings give)         *)
(***************************************************************************)

\* SIMILARITY_THRESHOLD = 0.8, as the fraction 4/5
SIMILARITY_THRESHOLD_num == 4

SIMILARITY_THRESHOLD_den == 5

\* CACHE_HOURS = 1 (the docstrings: the history of the last hour)
CACHE_HOURS == 1

\* AD_PATTERNS_COMPARE: each pattern is a literal text, matched ignoring case
AD_PATTERNS_COMPARE == << "[promo]" >>

\* AD_PATTERNS_FORWARD: each pattern is a literal text, matched ignoring case
AD_PATTERNS_FORWARD == << "[promo]" >>

STOP_WORDS == { "the", "and", "for" }

(***************************************************************************)
(* Mode B: TextProcessor (src/telegram_monitor/services/text_processor.py) *)
(***************************************************************************)

RECURSIVE SubLiteral(_, _)
\* pattern.sub("", text) for a literal pattern compiled with re.IGNORECASE
SubLiteral(text, lit) ==
    IF text = "" \/ lit = "" THEN text
    ELSE IF Len(text) >= Len(lit) /\ MapLower(SubSeq(text, 1, Len(lit))) = MapLower(lit)
         THEN SubLiteral(SubSeq(text, Len(lit) + 1, Len(text)), lit)
         ELSE Head(text) \o SubLiteral(Tail(text), lit)

RECURSIVE ApplyPatterns(_, _)
\* for pattern in patterns: cleaned_text = pattern.sub("", cleaned_text)
ApplyPatterns(text, patterns) ==
    IF patterns = << >> THEN text
    ELSE ApplyPatterns(SubLiteral(text, Head(patterns)), Tail(patterns))

RECURSIVE SplitLinesAcc(_, _)
\* str.split("\n"): the pieces between line feeds, empty pieces included
SplitLinesAcc(s, cur) ==
    IF s = "" THEN << cur >>
    ELSE IF Head(s) = "\n" THEN << cur >> \o SplitLinesAcc(Tail(s), "")
         ELSE SplitLinesAcc(Tail(s), cur \o Head(s))

SplitLines(s) == SplitLinesAcc(s, "")

RECURSIVE LStrip(_)
LStrip(s) == IF s # "" /\ IsSpaceChar(Head(s)) THEN LStrip(Tail(s)) ELSE s

RECURSIVE RStrip(_)
RStrip(s) ==
    IF s # "" /\ IsSpaceChar(Ch(s, Len(s))) THEN RStrip(SubSeq(s, 1, Len(s) - 1)) ELSE s

\* str.strip()
Strip(s) == RStrip(LStrip(s))

\* re.match(r"^[\s\-=~_]*$", line); the bullet character of the class is
\* outside the ASCII characters of the model
IsSeparatorLine(line) ==
    \A i \in 1..Len(line) : IsSpaceChar(Ch(line, i)) \/ Ch(line, i) \in {"-", "=", "~", "_"}

\* \$?[A-Z]+
IsTickerToken(tok) ==
    LET body == IF tok # "" /\ Head(tok) = "$" THEN Tail(tok) ELSE tok
    IN  body # "" /\ \A i \in 1..Len(body) : Ch(body, i) \in UpperChars

\* re.match(r"^(\$?[A-Z]+(?:\s+\$?[A-Z]+)*)$", line), for a stripped line
IsTickerLine(line) ==
    /\ line # ""
    /\ \A k \in 1..Len(Split(line)) : IsTickerToken(Split(line)[k])

\* re.match(r"^#[\w]+", line)
IsHashtagLine(line) == Len(line) >= 2 /\ Head(line) = "#" /\ IsWordChar(Ch(line, 2))

RECURSIVE CompareLines(_)
\* The line loop of clean_text_for_compare
CompareLines(lines) ==
    IF lines = << >> THEN << >>
    ELSE LET line == Strip(Head(lines))
         IN  IF line = "" \/ IsSeparatorLine(line) \/ IsTickerLine(line) \/ IsHashtagLine(line)
             THEN CompareLines(Tail(lines))
             ELSE << line >> \o CompareLines(Tail(lines))

clean_text_for_compare(text) ==
    IF text = "" THEN ""
    ELSE JoinWith(CompareLines(SplitLines(ApplyPatterns(text, AD_PATTERNS_COMPARE))), "\n")

RECURSIVE SubDigitRuns(_)
\* re.sub(r"\d+", " ", content)
SubDigitRuns(s) ==
    IF s = "" THEN ""
    ELSE IF Head(s) \in DigitChars
         THEN IF Len(s) >= 2 /\ Ch(s, 2) \in DigitChars
              THEN SubDigitRuns(Tail(s))
              ELSE " " \o SubDigitRuns(Tail(s))
         ELSE Head(s) \o SubDigitRuns(Tail(s))

\* The first n elements of a list: q[:n]
Take(q, n) == SubSeq(q, 1, Min(n, Len(q)))

\* The last n elements of a list, for n > 0: q[-n:]
TakeLast(q, n) == SubSeq(q, Max(1, Len(q) - n + 1), Len(q))

RECURSIVE LongLines(_)
\* The stripped lines that are longer than 10 characters
LongLines(lines) ==
    IF lines = << >> THEN << >>
    ELSE LET line == Strip(Head(lines))
         IN  (IF line # "" /\ Len(line) > 10 THEN << line >> ELSE << >>)
             \o LongLines(Tail(lines))

\* for line in lines[:3]: ... main_lines.append(line)
MainLines(lines) == LongLines(Take(lines, 3))

\* Mutant of create_comparison_key: a content of exactly 20 characters is
\* rejected.
create_comparison_key_Floor21(text) ==
    LET cleaned_text == clean_text_for_compare(text)
        main_lines   == MainLines(SplitLines(cleaned_text))
        content      == CollapseSpaces(SubDigitRuns(SubNonWordNonSpace(
                            MapLower(JoinWith(main_lines, " ")))))
        words        == SelectSeq(Split(content),
                                  LAMBDA word : word \notin STOP_WORDS /\ Len(word) > 2)
        key_length   == Min(10, Max(8, Len(words)))
    IN  IF cleaned_text = "" THEN ""
        ELSE IF main_lines = << >> THEN ""
        ELSE IF Len(content) <= 20 THEN ""
        ELSE IF Len(words) < 3 THEN ""
        ELSE JoinWith(Take(words, key_length), " ")

\* TextProcessor.create_comparison_key
create_comparison_key(text) ==
    LET cleaned_text == clean_text_for_compare(text)
        main_lines   == MainLines(SplitLines(cleaned_text))
        content      == CollapseSpaces(SubDigitRuns(SubNonWordNonSpace(
                            MapLower(JoinWith(main_lines, " ")))))
        words        == SelectSeq(Split(content),
                                  LAMBDA word : word \notin STOP_WORDS /\ Len(word) > 2)
        key_length   == Min(10, Max(8, Len(words)))
    IN  IF cleaned_text = "" THEN ""
        ELSE IF main_lines = << >> THEN ""
        ELSE IF Len(content) < 20 THEN ""
        ELSE IF Len(words) < 3 THEN ""
        ELSE JoinWith(Take(words, key_length), " ")

\* CLEAN_FORWARDED_TEXT of config.constants: the cleaning of forwarded texts
\* is enabled
CLEAN_FORWARDED_TEXT == TRUE

RECURSIVE ForwardLines(_, _)
\* The line loop of clean_text_for_forward; n is len(lines) of the whole split,
\* blank pieces included
ForwardLines(lines, n) ==
    IF lines = << >> THEN << >>
    ELSE LET line == Strip(Head(lines))
         IN  IF line = "" \/ (IsTickerLine(line) /\ n > 1)
             THEN ForwardLines(Tail(lines), n)
             ELSE << line >> \o ForwardLines(Tail(lines), n)

RECURSIVE NewlineRun(_)
\* The length of the run of line feeds at the head of s
NewlineRun(s) == IF s # "" /\ Head(s) = "\n" THEN 1 + NewlineRun(Tail(s)) ELSE 0

RECURSIVE SubNewlineRuns(_)
\* re.sub(r"\n{3,}", "\n\n", s)
SubNewlineRuns(s) ==
    IF s = "" THEN ""
    ELSE LET n == NewlineRun(s)
         IN  IF n >= 3 THEN "\n\n" \o SubNewlineRuns(SubSeq(s, n + 1, Len(s)))
             ELSE IF n > 0 THEN SubSeq(s, 1, n) \o SubNewlineRuns(SubSeq(s, n + 1, Len(s)))
             ELSE Head(s) \o SubNewlineRuns(Tail(s))

\* TextProcessor.clean_text_for_forward: (result, chars_removed)
clean_text_for_forward(text) ==
    IF text = "" \/ ~CLEAN_FORWARDED_TEXT THEN [result |-> text, chars_removed |-> 0]
    ELSE LET lines  == SplitLines(ApplyPatterns(text, AD_PATTERNS_FORWARD))
             joined == JoinWith(ForwardLines(lines, Len(lines)), "\n")
             result == Strip(SubNewlineRuns(joined))
         IN  [result |-> result, chars_removed |-> Len(text) - Len(result)]

(***************************************************************************)
(* difflib.SequenceMatcher(None, a, b).ratio() for texts shorter than 200   *)
(* characters (no junk, no popular elements)                               *)
(***************************************************************************)

RECURSIVE CommonLen(_, _, _, _, _, _)
\* Length of the common run of a[i..ahi] and b[j..bhi] that starts at i and j
CommonLen(a, b, i, j, ahi, bhi) ==
    IF i > ahi \/ j > bhi \/ Ch(a, i) # Ch(b, j) THEN 0
    ELSE 1 + CommonLen(a, b, i + 1, j + 1, ahi, bhi)

\* find_longest_match(alo, ahi, blo, bhi) on the inclusive ranges a[alo..ahi]
\* and b[blo..bhi]: <<i, j, k>>, the longest block, the one starting earliest
\* in a and, of those, earliest in b; k = 0 when there is none.
find_longest_match(a, b, alo, ahi, blo, bhi) ==
    LET cands == { << i, j, CommonLen(a, b, i, j, ahi, bhi) >> : i \in alo..ahi, j \in blo..bhi }
        best  == { c \in cands : c[3] > 0 /\ \A d \in cands : d[3] <= c[3] }
    IN  IF best = {} THEN << alo, blo, 0 >>
        ELSE CHOOSE c \in best :
                \A d \in best : c[1] < d[1] \/ (c[1] = d[1] /\ c[2] <= d[2])

RECURSIVE MatchedChars(_, _, _, _, _, _)
\* The total size of get_matching_blocks(): the longest block, then the blocks
\* to its left and to its right.
MatchedChars(a, b, alo, ahi, blo, bhi) ==
    IF alo > ahi \/ blo > bhi THEN 0
    ELSE LET m == find_longest_match(a, b, alo, ahi, blo, bhi)
         IN  IF m[3] = 0 THEN 0
             ELSE m[3]
                  + MatchedChars(a, b, alo, m[1] - 1, blo, m[2] - 1)
                  + MatchedChars(a, b, m[1] + m[3], ahi, m[2] + m[3], bhi)

\* ratio(): 2.0 * matches / (len(a) + len(b)), 1.0 when both are empty
SequenceRatio(a, b) ==
    IF Len(a) + Len(b) = 0 THEN << 1, 1 >>
    ELSE << 2 * MatchedChars(a, b, 1, Len(a), 1, Len(b)), Len(a) + Len(b) >>

\* TextProcessor.calculate_similarity
tp_calculate_similarity(text1, text2) ==
    IF text1 = "" \/ text2 = "" THEN << 0, 1 >>
    ELSE SequenceRatio(clean_text_for_compare(text1), clean_text_for_compare(text2))

(***************************************************************************)
(* Mode B: MessageData (src/telegram_monitor/models/message_data.py)       *)
(***************************************************************************)

\* Optional[...] attributes: None, or a value
None == << >>

Some(v) == << v >>

\* The attributes __init__ gives the object (original_message and
\* source_channel_id, which are never assigned again, are left out)
MessageData_init(message_id, text, timestamp) ==
    [id            |-> message_id,
     original_text |-> text,
     text          |-> text,
     timestamp     |-> timestamp,
     forwarded_at  |-> None,
     forward_delay |-> None,
     cleaned_text  |-> None,
     chars_removed |-> 0]

\* The parameters of MessageData.__init__, all of them required
MessageData_params ==
    { "message_id", "text", "timestamp", "original_message", "source_channel_id" }

\* MessageData(**kwargs): Python raises TypeError when the keyword arguments
\* are not exactly the required parameters; otherwise the object is built.
MessageData(kwargs) ==
    IF DOMAIN kwargs = MessageData_params
    THEN [raised |-> FALSE,
          obj    |-> MessageData_init(kwargs.message_id, kwargs.text, kwargs.timestamp)]
    ELSE [raised |-> TRUE]

\* MessageData.clean_text: the object after
\* self.cleaned_text, self.chars_removed = clean_text_for_forward(self.original_text)
clean_text(self) ==
    LET r == clean_text_for_forward(self.original_text)
    IN  [self EXCEPT !.cleaned_text = Some(r.result),
                     !.chars_removed = r.chars_removed]

\* MessageData.mark_forwarded: the object after it, now being datetime.now().
\* A negative delay is replaced by 0.
mark_forwarded(self, now) ==
    [self EXCEPT !.forwarded_at = Some(now),
                 !.forward_delay = Some(Max(now - self.timestamp, 0))]

\* The call of _handle_new_message and of _load_initial_history:
\* MessageData(message_id=..., text=..., timestamp=..., original_message=...)
MessageDataCall(message) ==
    MessageData([message_id       |-> message.id,
                 text             |-> message.text,
                 timestamp        |-> message.date,
                 original_message |-> message.id])

(***************************************************************************)
(* Mode B: TelegramMonitor cache methods                                   *)
(***************************************************************************)

\* q[start:] of Python, for a start of either sign
PySliceFrom(q, start) ==
    LET first == IF start < 0 THEN Max(Len(q) + start, 0) ELSE Min(start, Len(q))
    IN  SubSeq(q, first + 1, Len(q))

\* time_threshold = datetime.now() - timedelta(hours=CACHE_HOURS)
time_threshold(now) == now - CACHE_HOURS * SecondsPerHour

\* Mutant of InWindowB: an entry stamped exactly at the threshold is kept.
InWindowB_Inclusive(cache, now) ==
    SelectSeq(cache, LAMBDA msg : msg.timestamp >= time_threshold(now))

\* [msg for msg in self.message_cache if msg.timestamp > time_threshold]
InWindowB(cache, now) ==
    SelectSeq(cache, LAMBDA msg : msg.timestamp > time_threshold(now))

\* _cleanup_cache: the cache it leaves.  -CACHE_MAX_SIZE // 2 is the floor of
\* (-CACHE_MAX_SIZE) / 2, and the slice starts there.
_cleanup_cache(cache, now, max_size) ==
    LET kept == InWindowB(cache, now)
    IN  IF Len(kept) > max_size
        THEN PySliceFrom(kept, (0 - max_size) \div 2)
        ELSE kept

\* for cached_msg in reversed(self.message_cache[-50:])
ScanCap == 50

\* Mutant of MeetsThresholdB: the inclusive comparison of Mode A.
MeetsThresholdB_Inclusive(similarity) ==
    FracGE(similarity, << SIMILARITY_THRESHOLD_num, SIMILARITY_THRESHOLD_den >>)

\* similarity > SIMILARITY_THRESHOLD
MeetsThresholdB(similarity) ==
    FracGT(similarity, << SIMILARITY_THRESHOLD_num, SIMILARITY_THRESHOLD_den >>)

NoDuplicate == [dup |-> FALSE]

RECURSIVE ScanDuplicate(_, _, _, _)
\* The for loop of _is_duplicate over recent[k], recent[k-1], ..., recent[1]
ScanDuplicate(recent, text, new_key, k) ==
    IF k = 0 THEN NoDuplicate
    ELSE LET cached_msg     == recent[k]
             cached_cleaned == clean_text_for_compare(cached_msg.original_text)
             cached_key     == create_comparison_key(cached_cleaned)
             similarity     == tp_calculate_similarity(text, cached_msg.original_text)
         IN  IF cached_key # "" /\ new_key = cached_key /\ MeetsThresholdB(similarity)
             THEN [dup  |-> TRUE,
                   info |-> [similarity     |-> similarity,
                             duplicate_id   |-> cached_msg.id,
                             duplicate_time |-> cached_msg.timestamp,
                             key            |-> Take(new_key, 50)]]
             ELSE ScanDuplicate(recent, text, new_key, k - 1)

\* Mutant of _is_duplicate: neither the incoming key nor the cached key is
\* tested for emptiness, so empty keys match each other.
_is_duplicate_EmptyKeysMatch(cache, text) ==
    IF cache = << >> THEN NoDuplicate
    ELSE LET new_key == create_comparison_key(text)
             recent  == TakeLast(cache, ScanCap)
             hits    == { k \in 1..Len(recent) :
                            /\ create_comparison_key(
                                   clean_text_for_compare(recent[k].original_text)) = new_key
                            /\ MeetsThresholdB(
                                   tp_calculate_similarity(text, recent[k].original_text)) }
         IN  IF hits = {} THEN NoDuplicate
             ELSE LET k == CHOOSE k \in hits : \A j \in hits : j <= k
                  IN  [dup  |-> TRUE,
                       info |-> [similarity     |-> tp_calculate_similarity(
                                                        text, recent[k].original_text),
                                 duplicate_id   |-> recent[k].id,
                                 duplicate_time |-> recent[k].timestamp,
                                 key            |-> Take(new_key, 50)]]

\* _is_duplicate(text): the verdict and, for a duplicate, the evidence
_is_duplicate(cache, text) ==
    IF cache = << >> THEN NoDuplicate
    ELSE LET new_key == create_comparison_key(text)
             recent  == TakeLast(cache, ScanCap)
         IN  IF new_key = "" THEN NoDuplicate
             ELSE ScanDuplicate(recent, text, new_key, Len(recent))

RECURSIVE LoadHistory(_, _, _, _)
\* The loop of _load_initial_history over the messages iter_messages yields
\* (newest first), from the k-th on: the cache it leaves and whether the
\* except clause was entered.
LoadHistory(cache, messages, k, now) ==
    IF k > Len(messages) THEN [cache |-> cache, raised |-> FALSE]
    ELSE IF messages[k].date > time_threshold(now)
         THEN IF messages[k].text # ""
              THEN LET msg_data == MessageDataCall(messages[k])
                   IN  IF msg_data.raised
                       THEN [cache |-> cache, raised |-> TRUE]
                       ELSE LoadHistory(Append(cache, msg_data.obj), messages, k + 1, now)
              ELSE LoadHistory(cache, messages, k + 1, now)
         ELSE [cache |-> cache, raised |-> FALSE]

(***************************************************************************)
(* State                                                                   *)
(***************************************************************************)

VARIABLES
    clock,            \* time.time() / datetime.now(), in seconds
    recent_messages,  \* Mode A: MessageDuplicateChecker.recent_messages
    tasks,            \* Mode A: the copy_message handler of each update, in arrival order
    delivered,        \* Mode A: ids of the messages the target received, in order
    CACHE_MAX_SIZE,   \* Mode B: config.constants.CACHE_MAX_SIZE, fixed at start
    message_cache,    \* Mode B: TelegramMonitor.message_cache
    stats,            \* Mode B: TelegramMonitor.stats
    history,          \* Mode B: how far _load_initial_history got
    handled,          \* Mode B: what each run of _handle_new_message did, in order
    forward_attempts, \* Mode B: ids of the messages handed to _forward_message
    last_call         \* the method applied last and what it was applied to

varsA == << recent_messages, tasks, delivered >>

varsB == << CACHE_MAX_SIZE, message_cache, stats, history, handled, forward_attempts >>

vars == << clock, varsA, varsB, last_call >>

(***************************************************************************)
(* Bounds of the model                                                     *)
(***************************************************************************)

\* Updates that arrive in one run of Mode A
MaxMsgsA == 2

\* Advances of the clock, each of one window
MaxClockSteps == 1

ClockStep == window_hours * SecondsPerHour

(***************************************************************************)
(* Mode A: the messages of the source channel                              *)
(***************************************************************************)

\* event.message.text or event.message.caption or "", and event.message.media
MessagesA ==
    { [text |-> "up a b c",               media |-> FALSE],
      [text |-> "up a b c d",             media |-> FALSE],
      [text |-> "up a b",                 media |-> TRUE],
      [text |-> "Up: A, b c! #n http://t.me/x @bob", media |-> FALSE],
      [text |-> "#tag",                   media |-> FALSE],
      [text |-> "",                       media |-> TRUE] }

InitA ==
    /\ recent_messages = << >>
    /\ tasks = << >>
    /\ delivered = << >>

\* TelegramMonitor.__init__
InitB ==
    /\ message_cache = << >>
    /\ stats = [total_received |-> 0, duplicates_found |-> 0,
                unique_forwarded |-> 0, forward_errors |-> 0]
    /\ history = "pending"
    /\ handled = << >>
    /\ forward_attempts = << >>

\* No method has been applied yet
NoCall == [name |-> "none"]

(***************************************************************************)
(* Mode A: the copy_message handler.  The client is built without          *)
(* sequential_updates, so every update gets a handler task of its own and  *)
(* the tasks interleave at their awaits: event.get_chat() and the send.    *)
(***************************************************************************)

\* An update of the source channel arrives: its handler task starts and
\* suspends in `await event.get_chat()`.
A_Arrive(m) ==
    /\ Len(tasks) < MaxMsgsA
    /\ tasks' = Append(tasks, [text |-> m.text, media |-> m.media,
                               pc |-> "get_chat", outcome |-> "none", time |-> 0])
    /\ UNCHANGED << varsB, last_call, clock, recent_messages, delivered >>

\* get_chat() raises: the except clause formats source_name, which was never
\* bound, so the handler ends with the exception.
A_GetChatFails(i) ==
    /\ tasks[i].pc = "get_chat"
    /\ tasks' = [tasks EXCEPT ![i].pc = "done", ![i].outcome = "raised"]
    /\ UNCHANGED << varsB, last_call, clock, recent_messages, delivered >>

\* get_chat() returns: the handler runs, without suspending, the blacklist
\* filter and is_similar_message, up to the await of the send.
A_Detect(i) ==
    /\ tasks[i].pc = "get_chat"
    /\ LET original_text == tasks[i].text
           current_time  == clock
           r == is_similar_message(recent_messages, original_text, current_time)
       IN  IF should_filter_message(original_text)
           THEN /\ tasks' = [tasks EXCEPT ![i].pc = "done", ![i].outcome = "filtered"]
                /\ UNCHANGED recent_messages
           ELSE /\ recent_messages' = r.cache
                /\ tasks' = [tasks EXCEPT
                                ![i].time = current_time,
                                ![i].pc = IF r.dup THEN "done" ELSE "send",
                                ![i].outcome = IF r.dup THEN "duplicate" ELSE "none"]
    /\ UNCHANGED << varsB, last_call, clock, delivered >>

\* The send completes: send_media_with_fallback returned True, or
\* client.send_message returned.
A_SendOk(i) ==
    /\ tasks[i].pc = "send"
    /\ tasks' = [tasks EXCEPT ![i].pc = "done", ![i].outcome = "delivered"]
    /\ delivered' = Append(delivered, i)
    /\ UNCHANGED << varsB, last_call, clock, recent_messages >>

\* The send fails: send_media_with_fallback returned False, or
\* client.send_message raised and the handler's except clause logged it.
A_SendFails(i) ==
    /\ tasks[i].pc = "send"
    /\ tasks' = [tasks EXCEPT ![i].pc = "done", ![i].outcome = "failed"]
    /\ UNCHANGED << varsB, last_call, clock, recent_messages, delivered >>

\* Time passes.
Tick ==
    /\ clock < MaxClockSteps * ClockStep
    /\ clock' = clock + ClockStep

A_Tick == Tick /\ UNCHANGED << varsA, varsB, last_call >>

NextA ==
    \/ \E m \in MessagesA : A_Arrive(m)
    \/ \E i \in 1..Len(tasks) : A_GetChatFails(i)
    \/ \E i \in 1..Len(tasks) : A_Detect(i)
    \/ \E i \in 1..Len(tasks) : A_SendOk(i)
    \/ \E i \in 1..Len(tasks) : A_SendFails(i)
    \/ A_Tick

InitSpecA ==
    /\ clock = 0
    /\ InitA
    /\ InitB
    /\ CACHE_MAX_SIZE = 0
    /\ last_call = NoCall

SpecA == InitSpecA /\ [][NextA]_vars

(***************************************************************************)
(* Mode A: properties                                                      *)
(***************************************************************************)

WindowA == window_hours * SecondsPerHour

ThresholdA == << similarity_threshold_num, similarity_threshold_den >>

\* The step is the detection step of task i: it leaves get_chat and
\* is_similar_message has given its verdict.
DetectStep(i) ==
    /\ i \in 1..Len(tasks)
    /\ tasks[i].pc = "get_chat"
    /\ tasks'[i].pc # "get_chat"
    /\ tasks'[i].outcome \notin {"raised", "filtered"}

\* The Jaccard score of the text of task i against a cached entry
ScoreA(i, entry) == calculate_similarity(normalize_text(tasks[i].text), entry.norm)

\* C1: in Mode A, a message whose normalized text is non-empty is declared a
\* duplicate exactly when some cached entry that survives the eviction at the
\* time of the call has a Jaccard similarity >= the threshold (so a
\* similarity equal to the threshold is a duplicate and one below it is not).
C1_ThresholdIff ==
    [][ \A i \in 1..Len(tasks) :
          (DetectStep(i) /\ normalize_text(tasks[i].text) # "")
          => ( (tasks'[i].outcome = "duplicate")
               <=> \E k \in 1..Len(recent_messages) :
                      /\ recent_messages[k].ts > clock - WindowA
                      /\ FracGE(ScoreA(i, recent_messages[k]), ThresholdA) ) ]_vars

\* A message was declared a duplicate of an entry whose similarity is exactly
\* the threshold, no entry scoring higher.
C1_Witness ==
    \E i \in 1..Len(tasks) :
        /\ tasks[i].outcome = "duplicate"
        /\ normalize_text(tasks[i].text) # ""
        /\ \E k \in 1..Len(recent_messages) :
              /\ FracGE(ScoreA(i, recent_messages[k]), ThresholdA)
              /\ FracGE(ThresholdA, ScoreA(i, recent_messages[k]))
        /\ \A k \in 1..Len(recent_messages) :
              FracGE(ThresholdA, ScoreA(i, recent_messages[k]))

\* The entry is_similar_message recorded for task i
EntryOf(i) ==
    [norm |-> normalize_text(tasks[i].text), ts |-> tasks[i].time, orig |-> tasks[i].text]

\* What C9 states of a message m (task i) whose delivery failed: the failure
\* leaves the cache as it is, and when an identical message is detected before
\* t + window, the entry of m is still in the cache and the identical message
\* is declared a duplicate (and so is not delivered).
C9_Step(i) ==
    /\ (tasks[i].pc = "send" /\ tasks'[i].outcome = "failed")
       => recent_messages' = recent_messages
    /\ \A j \in 1..Len(tasks) :
          ( /\ tasks[i].outcome = "failed"
            /\ DetectStep(j)
            /\ tasks[j].text = tasks[i].text
            /\ clock < tasks[i].time + WindowA )
          => /\ \E k \in 1..Len(recent_messages) : recent_messages[k] = EntryOf(i)
             /\ tasks'[j].outcome = "duplicate"
             /\ tasks'[j].pc = "done"
             /\ delivered' = delivered

\* C9 as stated: for every message whose delivery failed.
C9_AsStated ==
    [][ \A i \in 1..Len(tasks) : C9_Step(i) ]_vars

\* C9 as amended: for every message with a non-empty normalized text whose
\* delivery failed, the entry recorded at detection time is still in the cache
\* and an identical message detected before t + window is a duplicate that is
\* not delivered.
C9_FailedDeliveryKeepsEntry ==
    [][ \A i \in 1..Len(tasks) :
          C9_Step(i) \/ normalize_text(tasks[i].text) = "" ]_vars

\* The delivery of a message failed and a later identical message, detected
\* within the window, was suppressed as a duplicate.
C9_Witness ==
    \E i, j \in 1..Len(tasks) :
        /\ i < j
        /\ tasks[i].outcome = "failed"
        /\ normalize_text(tasks[i].text) # ""
        /\ tasks[j].text = tasks[i].text
        /\ tasks[j].outcome = "duplicate"
        /\ tasks[j].time < tasks[i].time + WindowA

IsIncreasing(q) == \A a, b \in 1..Len(q) : a < b => q[a] < q[b]

\* C10: messages are handled one at a time: while the handler of a message is
\* suspended in its send, no handler of another message takes a step, and the
\* target receives the messages in arrival order.
C10_OneAtATime ==
    [][ /\ \A i, j \in 1..Len(tasks) :
             (i # j /\ tasks[i].pc = "send") => tasks'[j] = tasks[j]
        /\ IsIncreasing(delivered') ]_vars

(***************************************************************************)
(* Mode B: bounds and inputs                                               *)
(***************************************************************************)

\* Updates that arrive in one run of Mode B
MaxMsgsB == 3

\* The largest CACHE_MAX_SIZE that is configured
MaxCacheMaxSize == 3

\* Messages iter_messages yields at start
MaxHistory == 2

\* message.text or ""
TextsB ==
    { "alphas bravo charlie12345",
      "alphas bravo charlie67890",
      "alphas bravo charlie12346",
      "delta echoes foxtrot golf",
      "[promo]\n[PROMO]",
      "" }

\* The messages of the source channel at start, newest first, dated at the
\* start or one window before it
HistoryMessages ==
    { [id |-> 0, text |-> t, date |-> d] :
        t \in {"", "delta echoes foxtrot golf"}, d \in {0, 0 - CACHE_HOURS * SecondsPerHour} }

HistoriesB == UNION { [1..n -> HistoryMessages] : n \in 0..MaxHistory }

(***************************************************************************)
(* Mode B: the program.  run() registers the handler, starts the client,   *)
(* loads the history and waits for updates.                                *)
(***************************************************************************)

\* _load_initial_history with a failure propagating out of it instead of being
\* caught by its except clause: main() enters 'except Exception'
B_LoadHistory_Propagates(messages) ==
    /\ history = "pending"
    /\ LET r == LoadHistory(message_cache, messages, 1, clock)
       IN  /\ message_cache' = r.cache
           /\ history' = IF r.raised THEN "error" ELSE "loaded"
           /\ last_call' = IF r.raised
                           THEN [last_call EXCEPT !.at = "except_Exception"]
                           ELSE last_call
    /\ UNCHANGED << clock, varsA, CACHE_MAX_SIZE, stats, handled, forward_attempts >>

\* _load_initial_history: the except clause swallows what get_entity,
\* iter_messages or the loop body raises.  fail_at = 0: get_entity raises;
\* fail_at = k in 1..Len(messages): iter_messages raises after yielding k
\* messages, none of which ended the loop; fail_at = Len(messages) + 1: no
\* call of the client raises.
B_LoadHistoryUpTo(messages, fail_at) ==
    /\ history = "pending"
    /\ \A j \in 1..Min(fail_at, Len(messages)) :
          messages[j].date > time_threshold(clock)
    /\ LET seen == SubSeq(messages, 1, Min(fail_at, Len(messages)))
           r    == LoadHistory(message_cache, seen, 1, clock)
       IN  /\ message_cache' = r.cache
           /\ history' = IF r.raised \/ fail_at <= Len(messages)
                         THEN "error" ELSE "loaded"
    /\ UNCHANGED << clock, varsA, CACHE_MAX_SIZE, stats, handled, forward_attempts,
                    last_call >>

\* _load_initial_history, whichever call of the client fails or none
B_LoadHistory(messages) ==
    \E fail_at \in 0..(Len(messages) + 1) : B_LoadHistoryUpTo(messages, fail_at)

\* _send_cleaned_message goes on to send: with CLEAN_FORWARDED_TEXT the cleaned
\* text has something left after strip(); without it the message is forwarded
\* as it is.
ForwardHasText(text) ==
    ~CLEAN_FORWARDED_TEXT \/ Strip(clean_text_for_forward(text).result) # ""

\* _handle_new_message for an update with the given text.  Up to the call of
\* MessageData the handler does not suspend.  After it the handler appends to
\* the cache and awaits _forward_message, which returns False when the cleaned
\* text is empty or a call of the client raises, and True when the send
\* returns; False is counted in forward_errors.  _send_cleaned_message calls
\* clean_text and _forward_message calls mark_forwarded on the object that
\* was appended.
B_HandleNewMessage(text) ==
    /\ Len(handled) < MaxMsgsB
    /\ LET message      == [id |-> Len(handled) + 1, text |-> text, date |-> clock]
           cleaned      == _cleanup_cache(message_cache, clock, CACHE_MAX_SIZE)
           verdict      == _is_duplicate(cleaned, message.text)
           message_data == MessageDataCall(message)
           run          == [id |-> message.id, text |-> text, time |-> clock]
       IN  IF verdict.dup
           THEN /\ stats' = [stats EXCEPT !.total_received = @ + 1,
                                          !.duplicates_found = @ + 1]
                /\ message_cache' = cleaned
                /\ handled' = Append(handled,
                       [run |-> run, verdict |-> "duplicate", outcome |-> "skipped"])
                /\ UNCHANGED forward_attempts
           ELSE IF message_data.raised
                THEN /\ stats' = [stats EXCEPT !.total_received = @ + 1]
                     /\ message_cache' = cleaned
                     /\ handled' = Append(handled,
                            [run |-> run, verdict |-> "unique", outcome |-> "TypeError"])
                     /\ UNCHANGED forward_attempts
                ELSE \E raises_at \in { "get_entity", "send", "nowhere" } :
                     LET success  == raises_at = "nowhere" /\ ForwardHasText(message.text)
                         prepared == IF CLEAN_FORWARDED_TEXT /\ raises_at # "get_entity"
                                     THEN clean_text(message_data.obj)
                                     ELSE message_data.obj
                         entry    == IF success THEN mark_forwarded(prepared, clock)
                                     ELSE prepared
                     IN  /\ message_cache' = Append(cleaned, entry)
                         /\ forward_attempts' = Append(forward_attempts, message.id)
                         /\ stats' = IF success
                                     THEN [stats EXCEPT !.total_received = @ + 1,
                                                        !.unique_forwarded = @ + 1]
                                     ELSE [stats EXCEPT !.total_received = @ + 1,
                                                        !.forward_errors = @ + 1]
                         /\ handled' = Append(handled,
                                [run |-> run, verdict |-> "unique",
                                 outcome |-> IF success THEN "forwarded"
                                             ELSE IF ForwardHasText(message.text)
                                                  THEN "forward_error"
                                                  ELSE "cleaned_empty"])
    /\ UNCHANGED << clock, varsA, CACHE_MAX_SIZE, history, last_call >>

B_Tick == Tick /\ UNCHANGED << varsA, varsB, last_call >>

NextB ==
    \/ \E messages \in HistoriesB : B_LoadHistory(messages)
    \/ \E text \in TextsB : B_HandleNewMessage(text)
    \/ B_Tick

InitSpecB ==
    /\ clock = 0
    /\ InitA
    /\ InitB
    /\ CACHE_MAX_SIZE \in 0..MaxCacheMaxSize
    /\ last_call = NoCall

SpecB == InitSpecB /\ [][NextB]_vars

(***************************************************************************)
(* The eviction passes applied to every cache content:                     *)
(* clean_old_messages (Mode A) and _cleanup_cache (Mode B)                 *)
(***************************************************************************)

\* Entries of a cache in the eviction runs
MaxCacheLen == 4

\* Timestamps of cached entries: the start, just after it, one step later
StampsE == { 0, 1, ClockStep }

StampSeqs == UNION { [1..n -> StampsE] : n \in 0..MaxCacheLen }

\* recent_messages.append((new_normalized, current_time, new_text)) stamps the
\* entries with time.time(), so the Mode A cache is in ascending order
CacheA(stamps) ==
    LET sorted == SortSeq(stamps, LAMBDA a, b : a < b)
    IN  [k \in 1..Len(sorted) |-> [norm |-> "up", ts |-> sorted[k], orig |-> "up"]]

\* message_cache holds MessageData objects stamped with message.date, appended
\* newest first by the history load and in arrival order by the handler
CacheB(stamps) ==
    [k \in 1..Len(stamps) |-> MessageData_init(k, "up", stamps[k])]

InitSpecEvict ==
    /\ clock = 0
    /\ CACHE_MAX_SIZE \in 0..MaxCacheMaxSize
    /\ \E stamps \in StampSeqs :
          /\ recent_messages = CacheA(stamps)
          /\ message_cache = CacheB(stamps)
    /\ tasks = << >>
    /\ delivered = << >>
    /\ stats = [total_received |-> 0, duplicates_found |-> 0,
                unique_forwarded |-> 0, forward_errors |-> 0]
    /\ history = "loaded"
    /\ handled = << >>
    /\ forward_attempts = << >>
    /\ last_call = NoCall

\* self.clean_old_messages(current_time)
Do_clean_old_messages ==
    /\ recent_messages' = clean_old_messages(recent_messages, clock)
    /\ last_call' = [name |-> "clean_old_messages", before |-> recent_messages]
    /\ UNCHANGED << clock, tasks, delivered, varsB >>

\* self._cleanup_cache()
Do_cleanup_cache ==
    /\ message_cache' = _cleanup_cache(message_cache, clock, CACHE_MAX_SIZE)
    /\ last_call' = [name |-> "_cleanup_cache", before |-> message_cache]
    /\ UNCHANGED << clock, varsA, CACHE_MAX_SIZE, stats, history, handled,
                    forward_attempts >>

E_Tick ==
    /\ Tick
    /\ last_call' = [name |-> "tick"]
    /\ UNCHANGED << varsA, varsB >>

NextEvict ==
    \/ Do_clean_old_messages
    \/ Do_cleanup_cache
    \/ E_Tick

SpecEvict == InitSpecEvict /\ [][NextEvict]_vars

WindowB == CACHE_HOURS * SecondsPerHour

\* C3: immediately after an eviction pass at time now (clean_old_messages in
\* Mode A, _cleanup_cache in Mode B) no entry of the cache has a timestamp
\* <= now - window, whatever the cache held before.
C3_EvictionLeavesWindow ==
    /\ last_call.name = "clean_old_messages"
       => \A k \in 1..Len(recent_messages) : ~(recent_messages[k].ts <= clock - WindowA)
    /\ last_call.name = "_cleanup_cache"
       => \A k \in 1..Len(message_cache) : ~(message_cache[k].timestamp <= clock - WindowB)

\* _cleanup_cache has just dropped an entry stamped exactly now - window and
\* kept a newer one.
C3_Witness ==
    /\ last_call.name = "_cleanup_cache"
    /\ \E k \in 1..Len(last_call.before) :
          last_call.before[k].timestamp = clock - WindowB
    /\ message_cache # << >>

\* clean_old_messages has just dropped an entry stamped exactly now - window
\* and kept a newer one.
C3_WitnessA ==
    /\ last_call.name = "clean_old_messages"
    /\ \E k \in 1..Len(last_call.before) : last_call.before[k].ts = clock - WindowA
    /\ recent_messages # << >>

\* C4: immediately after _cleanup_cache returns, the cache holds at most
\* CACHE_MAX_SIZE entries, for every CACHE_MAX_SIZE >= 0 and every prior cache.
C4_SizeBound ==
    last_call.name = "_cleanup_cache" => Len(message_cache) <= CACHE_MAX_SIZE

\* C5: when more than CACHE_MAX_SIZE entries are left after the eviction by
\* time, _cleanup_cache keeps exactly floor(CACHE_MAX_SIZE / 2) entries, the
\* newest ones (the last ones of the list), for odd and for even sizes.
C5_KeepsFloorHalfNewest ==
    ( /\ last_call.name = "_cleanup_cache"
      /\ Len(InWindowB(last_call.before, clock)) > CACHE_MAX_SIZE )
    => LET kept == InWindowB(last_call.before, clock)
           half == CACHE_MAX_SIZE \div 2
       IN  /\ Len(message_cache) = half
           /\ message_cache = SubSeq(kept, Len(kept) - half + 1, Len(kept))

(***************************************************************************)
(* _is_duplicate applied to every small cache content                      *)
(***************************************************************************)

\* Entries of the cache _is_duplicate scans
MaxScanLen == 2

TextSeqs == UNION { [1..n -> TextsB] : n \in 0..MaxScanLen }

InitSpecIsDup ==
    /\ clock = 0
    /\ CACHE_MAX_SIZE = MaxCacheMaxSize
    /\ InitA
    /\ \E texts \in TextSeqs :
          message_cache = [k \in 1..Len(texts) |-> MessageData_init(k, texts[k], 0)]
    /\ stats = [total_received |-> 0, duplicates_found |-> 0,
                unique_forwarded |-> 0, forward_errors |-> 0]
    /\ history = "loaded"
    /\ handled = << >>
    /\ forward_attempts = << >>
    /\ last_call = NoCall

\* self._is_duplicate(text)
Do_is_duplicate(text) ==
    /\ last_call' = [name   |-> "_is_duplicate",
                     text   |-> text,
                     result |-> _is_duplicate(message_cache, text)]
    /\ UNCHANGED << clock, varsA, varsB >>

NextIsDup == \E text \in TextsB : Do_is_duplicate(text)

SpecIsDup == InitSpecIsDup /\ [][NextIsDup]_vars

ThresholdB == << SIMILARITY_THRESHOLD_num, SIMILARITY_THRESHOLD_den >>

\* The comparison key of the cached message, as _is_duplicate computes it,
\* is non-empty and equals the key of the incoming text
KeyMatches(text, cached_msg) ==
    LET new_key    == create_comparison_key(text)
        cached_key == create_comparison_key(clean_text_for_compare(cached_msg.original_text))
    IN  new_key # "" /\ cached_key # "" /\ new_key = cached_key

\* The sequence ratio of the incoming text against the cached message
RatioB(text, cached_msg) == tp_calculate_similarity(text, cached_msg.original_text)

\* C2: _is_duplicate answers 'duplicate' only when some cached entry whose
\* comparison key equals the incoming non-empty key has a sequence ratio
\* strictly greater than SIMILARITY_THRESHOLD; when no key-equal entry scores
\* above the threshold (one may score exactly the threshold) the answer is
\* 'unique'.
C2_StrictThresholdB ==
    last_call.name = "_is_duplicate"
    => ( last_call.result.dup
         => \E k \in 1..Len(message_cache) :
               /\ KeyMatches(last_call.text, message_cache[k])
               /\ FracGT(RatioB(last_call.text, message_cache[k]), ThresholdB) )

\* _is_duplicate answered 'unique' for a text that has a key-equal cached
\* entry scoring exactly the threshold.
C2_Witness ==
    /\ last_call.name = "_is_duplicate"
    /\ ~last_call.result.dup
    /\ \E k \in 1..Len(message_cache) :
          /\ KeyMatches(last_call.text, message_cache[k])
          /\ FracGE(RatioB(last_call.text, message_cache[k]), ThresholdB)
          /\ FracGE(ThresholdB, RatioB(last_call.text, message_cache[k]))

\* _is_duplicate answered 'duplicate' on a key-equal entry scoring above the
\* threshold.
C2_WitnessDuplicate ==
    /\ last_call.name = "_is_duplicate"
    /\ last_call.result.dup
    /\ FracGT(last_call.result.info.similarity, ThresholdB)
    /\ FracGT(<< 1, 1 >>, last_call.result.info.similarity)

(***************************************************************************)
(* Mode B: properties of the program                                       *)
(***************************************************************************)

\* The step is a run of _handle_new_message
HandlerStep == Len(handled') = Len(handled) + 1

\* The number of entries of the cache made for the message with this id
EntriesFor(cache, id) == Cardinality({ k \in 1..Len(cache) : cache[k].id = id })

\* C7: in Mode B every message the detector classifies as unique causes
\* exactly one entry for it to be appended to the cache and exactly one
\* delivery attempt; a message classified as duplicate causes neither.
C7_UniqueAppendsAndForwards ==
    [][ HandlerStep =>
          LET h       == handled'[Len(handled')]
              cleaned == _cleanup_cache(message_cache, clock, CACHE_MAX_SIZE)
          IN  /\ h.verdict = "unique"
                 => /\ Len(message_cache') = Len(cleaned) + 1
                    /\ SubSeq(message_cache', 1, Len(cleaned)) = cleaned
                    /\ LET entry == message_cache'[Len(message_cache')]
                       IN  /\ entry.id = h.run.id
                           /\ entry.original_text = h.run.text
                           /\ entry.timestamp = h.run.time
                    /\ EntriesFor(message_cache', h.run.id) = 1
                    /\ forward_attempts' = Append(forward_attempts, h.run.id)
              /\ h.verdict = "duplicate"
                 => /\ message_cache' = cleaned
                    /\ forward_attempts' = forward_attempts ]_vars

\* CACHE_MAX_SIZE + 1 messages have been handled, all classified as unique,
\* with pairwise different texts, all still inside the window
OverflowRun ==
    /\ Len(handled) = CACHE_MAX_SIZE + 1
    /\ \A k \in 1..Len(handled) :
          /\ handled[k].verdict = "unique"
          /\ handled[k].run.time > clock - WindowB
    /\ \A j, k \in 1..Len(handled) : j < k => handled[j].run.text # handled[k].run.text

\* C6: from an empty cache, when CACHE_MAX_SIZE + 1 unique in-window messages
\* have been handled one after another, the cache holds exactly the
\* CACHE_MAX_SIZE / 2 newest of them: the truncation is part of handling the
\* message that causes the overflow.
C6_TruncationOnOverflow ==
    OverflowRun
    => LET half == CACHE_MAX_SIZE \div 2
       IN  /\ Len(message_cache) = half
           /\ \A j \in 1..half :
                 message_cache[j].id = handled[CACHE_MAX_SIZE + 1 - half + j].run.id

\* C11: the evict -> lookup -> conditional-insert sequence of a handler does
\* not suspend, so of two messages with identical text handled within one
\* window at most one is classified unique.  Stated here for Mode B and for
\* texts that have a non-empty comparison key.
C11_IdenticalNotBothUnique ==
    \A j, k \in 1..Len(handled) :
        ( /\ j < k
          /\ handled[j].run.text = handled[k].run.text
          /\ create_comparison_key(handled[j].run.text) # ""
          /\ handled[k].run.time < handled[j].run.time + WindowB )
        => ~(handled[j].verdict = "unique" /\ handled[k].verdict = "unique")

(***************************************************************************)
(* TextProcessor.clean_text_for_forward applied to texts of a few lines    *)
(***************************************************************************)

\* Lines of a text given to clean_text_for_forward
MaxLinesF == 3

LinesF == { "", "AAPL", "$TSLA GME", "buy now", "[promo]", "-= ~_" }

TextsF == { JoinWith(lines, "\n") : lines \in UNION { [1..n -> LinesF] : n \in 1..MaxLinesF } }

\* The program at rest: nothing received, nothing cached
IdleProgram ==
    /\ clock = 0
    /\ InitA
    /\ InitB
    /\ CACHE_MAX_SIZE = 0

InitSpecForward ==
    /\ IdleProgram
    /\ \E text \in TextsF : last_call = [name |-> "input", text |-> text]

\* self.text_processor.clean_text_for_forward(text)
Do_clean_text_for_forward ==
    /\ last_call.name = "input"
    /\ last_call' = [name   |-> "clean_text_for_forward",
                     text   |-> last_call.text,
                     result |-> clean_text_for_forward(last_call.text).result]
    /\ UNCHANGED << clock, varsA, varsB >>

NextForward == Do_clean_text_for_forward

SpecForward == InitSpecForward /\ [][NextForward]_vars

\* The lines of a text that have content, stripped
ContentLines(text) ==
    SelectSeq([k \in 1..Len(SplitLines(text)) |-> Strip(SplitLines(text)[k])],
              LAMBDA line : line # "")

\* C13: clean_text_for_forward drops a ticker-only line only when more than
\* one line remains: a text whose only line with content is a ticker-only line
\* (blank lines around it or not) comes back as that line, and a text with a
\* ticker-only line and one line of other content comes back as the content
\* line.
C13_LoneTickerKept ==
    last_call.name = "clean_text_for_forward"
    => LET content == ContentLines(last_call.text)
       IN  /\ (Len(content) = 1 /\ IsTickerLine(content[1]))
              => last_call.result = content[1]
           /\ ( /\ Len(content) = 2
                /\ \E a, b \in 1..2 :
                      /\ a # b
                      /\ IsTickerLine(content[a])
                      /\ ~IsTickerLine(content[b])
                      /\ ApplyPatterns(content[b], AD_PATTERNS_FORWARD) = content[b] )
              => ( \E a, b \in 1..2 :
                      /\ a # b
                      /\ IsTickerLine(content[a])
                      /\ ~IsTickerLine(content[b])
                      /\ ApplyPatterns(content[b], AD_PATTERNS_FORWARD) = content[b]
                      /\ last_call.result = content[b] )

\* C12: with CLEAN_FORWARDED_TEXT enabled, a unique message whose text is
\* nothing but lines the forwarding ad patterns remove is cleaned to the empty
\* text by its handler, is not delivered and leaves forward_errors as it was.
C12_PromoOnlySuppressed ==
    [][ HandlerStep =>
          LET h == handled'[Len(handled')]
          IN  ( /\ CLEAN_FORWARDED_TEXT
                /\ h.verdict = "unique"
                /\ h.run.text # ""
                /\ clean_text_for_forward(h.run.text).result = "" )
              => /\ h.outcome = "cleaned_empty"
                 /\ stats'.unique_forwarded = stats.unique_forwarded
                 /\ stats'.forward_errors = stats.forward_errors ]_vars

(***************************************************************************)
(* TextProcessor.create_comparison_key applied to texts of a few words     *)
(***************************************************************************)

\* Words of a text given to create_comparison_key
MaxWordsK == 3

WordsK ==
    { "alphas", "alpha", "bravo", "charlie", "foxtrotters", "the", "ab", "99", "\n" }

TextsK == { JoinWith(words, " ") : words \in UNION { [1..n -> WordsK] : n \in 1..MaxWordsK } }

InitSpecKey ==
    /\ IdleProgram
    /\ \E text \in TextsK : last_call = [name |-> "input", text |-> text]

\* self.text_processor.create_comparison_key(text)
Do_create_comparison_key ==
    /\ last_call.name = "input"
    /\ last_call' = [name   |-> "create_comparison_key",
                     text   |-> last_call.text,
                     result |-> create_comparison_key(last_call.text)]
    /\ UNCHANGED << clock, varsA, varsB >>

NextKey == Do_create_comparison_key

SpecKey == InitSpecKey /\ [][NextKey]_vars

\* The lines of the cleaned text that the key is built from
QualifyingLines(text) == MainLines(SplitLines(clean_text_for_compare(text)))

\* The comparison-normalized content: the qualifying lines joined, in lower
\* case, punctuation and digits replaced by spaces, whitespace collapsed
NormalizedContent(text) ==
    CollapseSpaces(SubDigitRuns(SubNonWordNonSpace(
        MapLower(JoinWith(QualifyingLines(text), " ")))))

\* The tokens of the content that are no stop words and longer than 2
SignificantTokens(text) ==
    SelectSeq(Split(NormalizedContent(text)),
              LAMBDA word : word \notin STOP_WORDS /\ Len(word) > 2)

C14_WitnessShort ==
    /\ last_call.name = "create_comparison_key"
    /\ Len(NormalizedContent(last_call.text)) = 19
    /\ Len(SignificantTokens(last_call.text)) = 3
    /\ last_call.result = ""

\* A text of 20 characters or more with 2 significant tokens got the empty key.
C14_WitnessFewTokens ==
    /\ last_call.name = "create_comparison_key"
    /\ Len(NormalizedContent(last_call.text)) >= 20
    /\ Len(SignificantTokens(last_call.text)) = 2
    /\ last_call.result = ""

\* The comparison key _is_duplicate computes for a cached message
CachedKey(cached_msg) ==
    create_comparison_key(clean_text_for_compare(cached_msg.original_text))

\* C15: in Mode B an empty comparison key never matches: an incoming text
\* with an empty key is unique for every cache content, and a cached entry
\* with an empty key is never the reported match of an incoming text, one
\* with an empty key included.
C15_EmptyKeyNeverMatches ==
    last_call.name = "_is_duplicate"
    => /\ create_comparison_key(last_call.text) = "" => ~last_call.result.dup
       /\ last_call.result.dup
          => \A k \in 1..Len(message_cache) :
                message_cache[k].id = last_call.result.info.duplicate_id
                => CachedKey(message_cache[k]) # ""

\* A non-empty text with an empty key was looked up in a cache that holds an
\* entry with the same text, and so with an empty key too, and was answered
\* unique.
C15_Witness ==
    /\ last_call.name = "_is_duplicate"
    /\ last_call.text # ""
    /\ create_comparison_key(last_call.text) = ""
    /\ \E k \in 1..Len(message_cache) :
          /\ message_cache[k].original_text = last_call.text
          /\ CachedKey(message_cache[k]) = ""
    /\ ~last_call.result.dup

(***************************************************************************)
(* The Jaccard scorer of Mode A on drawn pairs of texts                    *)
(***************************************************************************)

MaxWordsJ == 2

WordsJ == { "Up", "up!", "a", "#tag", "http://x" }

TextsJ == { JoinWith(words, " ") : words \in UNION { [1..n -> WordsJ] : n \in 0..MaxWordsJ } }

InitSpecJaccard ==
    /\ IdleProgram
    /\ \E a \in TextsJ, b \in TextsJ :
          last_call = [name |-> "input", a |-> a, b |-> b]

\* self.calculate_similarity(new_normalized, existing_normalized), with both
\* arguments produced by self.normalize_text as in is_similar_message; the
\* score of the swapped pair and of the first text with itself are taken in
\* the same step
Do_calculate_similarity ==
    /\ last_call.name = "input"
    /\ LET na == normalize_text(last_call.a)
           nb == normalize_text(last_call.b)
       IN  last_call' = [name    |-> "calculate_similarity",
                         a       |-> last_call.a,
                         b       |-> last_call.b,
                         result  |-> calculate_similarity(na, nb),
                         swapped |-> calculate_similarity(nb, na),
                         self    |-> calculate_similarity(na, na)]
    /\ UNCHANGED << clock, varsA, varsB >>

NextJaccard == Do_calculate_similarity

SpecJaccard == InitSpecJaccard /\ [][NextJaccard]_vars

\* The word set the scorer builds from a text
WordSetA(text) == SeqToSet(Split(normalize_text(text)))

\* C16: the Jaccard score of every pair of texts lies in [0, 1], is the same
\* for the swapped pair, and is 0.0 whenever either text is empty or has an
\* empty word set.
C16_JaccardBounds ==
    last_call.name = "calculate_similarity" =>
        LET r == last_call.result
            w == last_call.swapped
        IN  /\ r[2] > 0
            /\ 0 <= r[1]
            /\ r[1] <= r[2]
            /\ w[2] > 0
            /\ r[1] * w[2] = w[1] * r[2]
            /\ (\/ last_call.a = ""
                \/ last_call.b = ""
                \/ WordSetA(last_call.a) = {}
                \/ WordSetA(last_call.b) = {}) => r[1] = 0

\* Two texts with overlapping but different word sets were scored, and a pair
\* with a text that has no words was scored
C16_Witness ==
    /\ last_call.name = "calculate_similarity"
    /\ WordSetA(last_call.a) # WordSetA(last_call.b)
    /\ last_call.result[1] > 0
    /\ last_call.result[1] < last_call.result[2]

\* C17: the Jaccard score of a text with itself is exactly 1.0 for every text
\* whose normalized form is non-empty.
C17_SelfScoreOne ==
    (/\ last_call.name = "calculate_similarity"
     /\ normalize_text(last_call.a) # "") =>
        /\ last_call.self[1] = last_call.self[2]
        /\ last_call.self[2] > 0

\* A text of two different words was scored against itself
C17_Witness ==
    /\ last_call.name = "calculate_similarity"
    /\ Cardinality(WordSetA(last_call.a)) = 2
    /\ last_call.self = << 2, 2 >>

\* C17 as stated: the self-score is 1.0 for every non-empty text
C17_AsStated ==
    (/\ last_call.name = "calculate_similarity"
     /\ last_call.a # "") =>
        last_call.self[1] = last_call.self[2]

(***************************************************************************)
(* The exact-repeat scenario: a message with a trailing hashtag is         *)
(* accepted, and the same text without the hashtag follows within the      *)
(* window                                                                  *)
(***************************************************************************)

MaxGapSteps == 2

\* The delays of the repeat, all inside the window
GapsR == { k * (ClockStep \div (MaxGapSteps + 1)) : k \in 0..MaxGapSteps }

BasesR ==
    { "Breaking: market up 5%",
      "Breaking: markets rally 5%",
      "Fed holds the rates steady",
      "up" }

TagsR == { "#stocks", "#a1", "#stocks #news" }

ScenarioFirst == "Breaking: market up 5% #stocks"

ScenarioSecond == "Breaking: market up 5%"

InitSpecRepeat ==
    /\ clock = 0
    /\ InitA
    /\ InitB
    /\ CACHE_MAX_SIZE = MaxCacheMaxSize
    /\ \E base \in BasesR, tag \in TagsR, mode \in { "A", "B" } :
          last_call = [name   |-> "input",
                       mode   |-> mode,
                       first  |-> base \o " " \o tag,
                       second |-> base]

\* The first message is accepted: in Mode A by is_similar_message on the
\* empty cache, which records it; in Mode B it is placed in message_cache as
\* a MessageData built with every required argument.
R_First ==
    /\ last_call.name = "input"
    /\ IF last_call.mode = "A"
       THEN LET r == is_similar_message(recent_messages, last_call.first, clock)
            IN  /\ recent_messages' = r.cache
                /\ last_call' = [last_call EXCEPT !.name = "first"]
                /\ UNCHANGED message_cache
       ELSE LET data == MessageData([message_id        |-> 1,
                                     text              |-> last_call.first,
                                     timestamp         |-> clock,
                                     original_message  |-> 1,
                                     source_channel_id |-> 1])
            IN  /\ message_cache' = << data.obj >>
                /\ last_call' = [last_call EXCEPT !.name = "first"]
                /\ UNCHANGED recent_messages
    /\ UNCHANGED << clock, tasks, delivered, CACHE_MAX_SIZE, stats, history,
                    handled, forward_attempts >>

\* The text without the hashtag arrives gap seconds later and is classified:
\* by is_similar_message in Mode A, by _cleanup_cache and _is_duplicate in
\* Mode B.
R_Repeat(gap) ==
    /\ last_call.name = "first"
    /\ clock' = clock + gap
    /\ IF last_call.mode = "A"
       THEN LET r == is_similar_message(recent_messages, last_call.second, clock')
            IN  /\ recent_messages' = r.cache
                /\ last_call' = [name   |-> "repeat",
                                 mode   |-> "A",
                                 first  |-> last_call.first,
                                 second |-> last_call.second,
                                 dup    |-> r.dup,
                                 similarity |-> IF r.dup THEN r.info.similarity
                                                ELSE << 0, 1 >>]
                /\ UNCHANGED message_cache
       ELSE LET cleaned == _cleanup_cache(message_cache, clock', CACHE_MAX_SIZE)
                r       == _is_duplicate(cleaned, last_call.second)
            IN  /\ message_cache' = cleaned
                /\ last_call' = [name   |-> "repeat",
                                 mode   |-> "B",
                                 first  |-> last_call.first,
                                 second |-> last_call.second,
                                 dup    |-> r.dup,
                                 similarity |-> IF r.dup THEN r.info.similarity
                                                ELSE << 0, 1 >>]
                /\ UNCHANGED recent_messages
    /\ UNCHANGED << tasks, delivered, CACHE_MAX_SIZE, stats, history,
                    handled, forward_attempts >>

NextRepeat ==
    \/ R_First
    \/ \E gap \in GapsR : R_Repeat(gap)

SpecRepeat == InitSpecRepeat /\ [][NextRepeat]_vars

\* C18: when "Breaking: market up 5% #stocks" has been accepted and the same
\* text without the hashtag follows within the window, the second message is
\* flagged as a duplicate with similarity 1.0, by the Mode A detector and by
\* the Mode B detector.
C18_ExactRepeatFlagged ==
    (/\ last_call.name = "repeat"
     /\ last_call.first = ScenarioFirst
     /\ last_call.second = ScenarioSecond) =>
        /\ last_call.dup
        /\ last_call.similarity[1] = last_call.similarity[2]

(***************************************************************************)
(* Mode B: main() of telegram_monitor.py around run().  last_call.at is    *)
(* the position of main(); last_call.shutdown lists the shutdown calls     *)
(* made so far, in order.                                                  *)
(***************************************************************************)

\* The ways run() stops: KeyboardInterrupt raised into main(); an exception
\* raised by run() (re-raised by its except clause); run() returning after
\* run_until_disconnected; and asyncio.run cancelling the task of main() on
\* SIGINT, which raises CancelledError (not a subclass of Exception) in it.
StopCauses == { "KeyboardInterrupt", "Exception", "return", "CancelledError" }

InitSpecMain ==
    /\ clock = 0
    /\ InitA
    /\ InitB
    /\ CACHE_MAX_SIZE = MaxCacheMaxSize
    /\ last_call = [name |-> "main", at |-> "start", cause |-> "none",
                    shutdown |-> << >>]

\* await self.client.start(): it returns, or it raises and run() re-raises
M_ClientStart ==
    /\ last_call.name = "main"
    /\ last_call.at = "start"
    /\ \E started \in BOOLEAN :
          last_call' = IF started
                       THEN [last_call EXCEPT !.at = "running"]
                       ELSE [last_call EXCEPT !.at = "except_Exception",
                                              !.cause = "Exception"]
    /\ UNCHANGED << clock, varsA, varsB >>

\* _load_initial_history and the registered handler while run() waits
M_Running ==
    /\ last_call.name = "main"
    /\ last_call.at = "running"
    /\ \/ \E messages \in HistoriesB : B_LoadHistory(messages)
       \/ \E text \in TextsB : B_HandleNewMessage(text)
       \/ B_Tick

\* try: await monitor.run() ends; the except clause that matches is entered,
\* or none and control goes to finally
M_RunStops(cause) ==
    /\ last_call.name = "main"
    /\ last_call.at = "running"
    /\ last_call' = [last_call EXCEPT
                        !.cause = cause,
                        !.at = CASE cause = "KeyboardInterrupt" -> "except_KeyboardInterrupt"
                                 [] cause = "Exception"         -> "except_Exception"
                                 [] OTHER                       -> "finally"]
    /\ UNCHANGED << clock, varsA, varsB >>

\* except KeyboardInterrupt: await monitor._print_statistics()
M_PrintStatistics ==
    /\ last_call.name = "main"
    /\ last_call.at = "except_KeyboardInterrupt"
    /\ last_call' = [last_call EXCEPT
                        !.at = "save_final_report",
                        !.shutdown = Append(@, "_print_statistics")]
    /\ UNCHANGED << clock, varsA, varsB >>

\* await monitor._save_final_report()
M_SaveFinalReport ==
    /\ last_call.name = "main"
    /\ last_call.at = "save_final_report"
    /\ last_call' = [last_call EXCEPT
                        !.at = "finally",
                        !.shutdown = Append(@, "_save_final_report")]
    /\ UNCHANGED << clock, varsA, varsB >>

\* except Exception as e: logger.error(...)
M_LogError ==
    /\ last_call.name = "main"
    /\ last_call.at = "except_Exception"
    /\ last_call' = [last_call EXCEPT !.at = "finally"]
    /\ UNCHANGED << clock, varsA, varsB >>

\* finally: await monitor.cleanup()
M_Cleanup ==
    /\ last_call.name = "main"
    /\ last_call.at = "finally"
    /\ last_call' = [last_call EXCEPT
                        !.at = "done",
                        !.shutdown = Append(@, "cleanup")]
    /\ UNCHANGED << clock, varsA, varsB >>

NextMain ==
    \/ M_ClientStart
    \/ M_Running
    \/ \E cause \in StopCauses : M_RunStops(cause)
    \/ M_PrintStatistics
    \/ M_SaveFinalReport
    \/ M_LogError
    \/ M_Cleanup

SpecMain == InitSpecMain /\ [][NextMain]_vars

\* C19: on every path by which main() stops, the statistics printout and the
\* final report have been attempted by the time the client is cleaned up.
C19_ReportBeforeCleanup ==
    (/\ last_call.name = "main"
     /\ last_call.at = "done") =>
        last_call.shutdown = << "_print_statistics", "_save_final_report", "cleanup" >>

(***************************************************************************)
(* Startup of the two entry points under a drawn configuration.            *)
(* last_call.at is the position of the startup code, last_call.registered  *)
(* tells whether the NewMessage handler has been registered, and           *)
(* last_call.diagnostic whether the process has stopped with a message.    *)
(***************************************************************************)

AllDigits(s) == \A i \in 1..Len(s) : Ch(s, i) \in DigitChars

\* int(config.API_ID) returns: the value is a run of decimal digits
IntParses(v) == v # "" /\ AllDigits(v)

\* A name the configuration module does not define
Missing == "<missing>"

ConfigsC ==
    [ API_ID          : { Missing, "abc", "12345" },
      API_HASH        : { Missing, "0123abcd" },
      SOURCE_CHANNELS : { << >>, << "source" >> },
      TARGET          : { "", "target" } ]

EntryPoints == { "next.py", "telegram_monitor.py" }

\* Missing or non-numeric API credentials, an empty source channel list or an
\* empty target
InvalidConfig(config) ==
    \/ config.API_ID = Missing
    \/ config.API_HASH = Missing
    \/ ~IntParses(config.API_ID)
    \/ config.SOURCE_CHANNELS = << >>
    \/ config.TARGET = ""

InitSpecConfig ==
    /\ clock = 0
    /\ InitA
    /\ InitB
    /\ CACHE_MAX_SIZE = MaxCacheMaxSize
    /\ \E config \in ConfigsC, entry \in EntryPoints :
          last_call = [name       |-> "startup",
                       entry      |-> entry,
                       config     |-> config,
                       at         |-> "start",
                       registered |-> FALSE,
                       diagnostic |-> FALSE]

At(entry, at) ==
    /\ last_call.name = "startup"
    /\ last_call.entry = entry
    /\ last_call.at = at

\* print(...) or the traceback of an uncaught exception, then the process ends
ExitWithDiagnostic == [last_call EXCEPT !.at = "exited", !.diagnostic = TRUE]

\* next.py main: if not hasattr(config, 'API_ID') or not hasattr(config,
\* 'API_HASH'): print, sys.exit(1)
N_CheckCredentials ==
    /\ At("next.py", "start")
    /\ last_call' = IF \/ last_call.config.API_ID = Missing
                       \/ last_call.config.API_HASH = Missing
                    THEN ExitWithDiagnostic
                    ELSE [last_call EXCEPT !.at = "api_id"]
    /\ UNCHANGED << clock, varsA, varsB >>

\* try: api_id = int(config.API_ID) except (ValueError, TypeError): print,
\* sys.exit(1)
N_CheckApiId ==
    /\ At("next.py", "api_id")
    /\ last_call' = IF IntParses(last_call.config.API_ID)
                    THEN [last_call EXCEPT !.at = "channels"]
                    ELSE ExitWithDiagnostic
    /\ UNCHANGED << clock, varsA, varsB >>

\* if not SOURCE_CHANNELS or not TARGET_CHAT: print, sys.exit(1)
N_CheckChannels ==
    /\ At("next.py", "channels")
    /\ last_call' = IF \/ last_call.config.SOURCE_CHANNELS = << >>
                       \/ last_call.config.TARGET = ""
                    THEN ExitWithDiagnostic
                    ELSE [last_call EXCEPT !.at = "register"]
    /\ UNCHANGED << clock, varsA, varsB >>

\* @client.on(events.NewMessage(chats=SOURCE_CHANNELS)) async def copy_message
N_Register ==
    /\ At("next.py", "register")
    /\ last_call' = [last_call EXCEPT !.at = "client_start", !.registered = TRUE]
    /\ UNCHANGED << clock, varsA, varsB >>

\* await client.start(): it returns and the bot waits for messages, or it
\* raises and the error is logged
N_ClientStart ==
    /\ At("next.py", "client_start")
    /\ \E started \in BOOLEAN :
          last_call' = IF started THEN [last_call EXCEPT !.at = "running"]
                       ELSE ExitWithDiagnostic
    /\ UNCHANGED << clock, varsA, varsB >>

\* copy_message while the client runs
N_Running ==
    /\ At("next.py", "running")
    /\ NextA

\* telegram_monitor.py: from config.constants import (API_ID, API_HASH, ...):
\* a name that is not defined raises ImportError and the process ends with the
\* traceback
T_Import ==
    /\ At("telegram_monitor.py", "start")
    /\ last_call' = IF \/ last_call.config.API_ID = Missing
                       \/ last_call.config.API_HASH = Missing
                    THEN ExitWithDiagnostic
                    ELSE [last_call EXCEPT !.at = "client"]
    /\ UNCHANGED << clock, varsA, varsB >>

\* run(): self.client = TelegramClient(self.settings.session_name, API_ID,
\* API_HASH); the constructor converts api_id with int(), and the ValueError
\* of a non-numeric one reaches 'except Exception' of main(), which logs it
T_BuildClient ==
    /\ At("telegram_monitor.py", "client")
    /\ last_call' = IF IntParses(last_call.config.API_ID)
                    THEN [last_call EXCEPT !.at = "register"]
                    ELSE ExitWithDiagnostic
    /\ UNCHANGED << clock, varsA, varsB >>

\* @self.client.on(events.NewMessage(chats=SOURCE_CHANNEL)) async def handler
T_Register ==
    /\ At("telegram_monitor.py", "register")
    /\ last_call' = [last_call EXCEPT !.at = "client_start", !.registered = TRUE]
    /\ UNCHANGED << clock, varsA, varsB >>

\* await self.client.start(): it returns, or it raises, run() logs and
\* re-raises and main() logs
T_ClientStart ==
    /\ At("telegram_monitor.py", "client_start")
    /\ \E started \in BOOLEAN :
          last_call' = IF started THEN [last_call EXCEPT !.at = "running"]
                       ELSE ExitWithDiagnostic
    /\ UNCHANGED << clock, varsA, varsB >>

\* _load_initial_history and _handle_new_message while the client runs
T_Running ==
    /\ At("telegram_monitor.py", "running")
    /\ NextB

NextConfig ==
    \/ N_CheckCredentials
    \/ N_CheckApiId
    \/ N_CheckChannels
    \/ N_Register
    \/ N_ClientStart
    \/ N_Running
    \/ T_Import
    \/ T_BuildClient
    \/ T_Register
    \/ T_ClientStart
    \/ T_Running

SpecConfig == InitSpecConfig /\ [][NextConfig]_vars

\* A message has been classified by a duplicate detector
Classified ==
    \/ handled # << >>
    \/ \E i \in 1..Len(tasks) : tasks[i].outcome \in { "duplicate", "delivered", "failed" }
    \/ \E i \in 1..Len(tasks) : tasks[i].pc = "send"

\* C20: with an invalid configuration no message handler is ever registered
\* and no message is ever classified, and the process ends only with a
\* diagnostic; for both entry points.
C20_InvalidConfigNeverStarts ==
    (/\ last_call.name = "startup"
     /\ InvalidConfig(last_call.config)) =>
        /\ ~last_call.registered
        /\ ~Classified
        /\ last_call.at = "exited" => last_call.diagnostic

\* q is p followed by further entries
IsPrefix(p, q) == Len(p) <= Len(q) /\ SubSeq(q, 1, Len(p)) = p

\* C21: a failure during the startup history load is not fatal:
\* _load_initial_history returns normally, the cache keeps what it held and
\* what was appended before the failure, and run() stays on its way to
\* waiting for live messages.
C21_HistoryFailureNotFatal ==
    [][(history = "pending" /\ history' = "error") =>
          /\ last_call'.at = "running"
          /\ IsPrefix(message_cache, message_cache')]_vars

\* The history load failed and a live message was handled afterwards
C21_Witness ==
    /\ last_call.name = "main"
    /\ last_call.at = "running"
    /\ history = "error"
    /\ handled # << >>

\* C22: a failure of a collaborator call made while handling a message (chat
\* lookup, delivery) never leaves the handler as an exception: every handler
\* that has ended has returned, and handlers of later messages still run.
C22_CollaboratorFailureContained ==
    \A i \in 1..Len(tasks) :
        tasks[i].pc = "done" => tasks[i].outcome # "raised"

(***************************************************************************)
(* normalize_text applied twice to drawn texts                             *)
(***************************************************************************)

MaxFragsN == 3

\* Pieces of words, of noise tokens and of separators, concatenated without
\* anything between them
FragsN == { "ht", "tp", "HTTP", "#a", "@b", "://x", " ", ".", "A" }

RECURSIVE Concat(_)
Concat(parts) == IF parts = << >> THEN "" ELSE Head(parts) \o Concat(Tail(parts))

TextsN == { Concat(parts) : parts \in UNION { [1..n -> FragsN] : n \in 0..MaxFragsN } }

InitSpecNormalize ==
    /\ IdleProgram
    /\ \E text \in TextsN : last_call = [name |-> "input", text |-> text]

\* self.normalize_text(x), and self.normalize_text of its result
Do_normalize_text ==
    /\ last_call.name = "input"
    /\ LET once == normalize_text(last_call.text)
       IN  last_call' = [name  |-> "normalize_text",
                         text  |-> last_call.text,
                         once  |-> once,
                         twice |-> normalize_text(once)]
    /\ UNCHANGED << clock, varsA, varsB >>

NextNormalize == Do_normalize_text

SpecNormalize == InitSpecNormalize /\ [][NextNormalize]_vars

\* C23: a second pass of normalize_text removes nothing more: the result of
\* the first pass holds no hashtag, link or mention that the removal steps
\* would take out, and normalizing it again gives the same text.
C23_NormalizeIdempotent ==
    last_call.name = "normalize_text" =>
        /\ last_call.twice = last_call.once
        /\ remove_hashtags(last_call.once) = last_call.once
        /\ SubPrefixRun(last_call.once, "http", FALSE) = last_call.once
        /\ SubPrefixRun(last_call.once, "@", TRUE) = last_call.once

\* A text with a mention between the pieces of "http": the mention takes the
\* letters that follow it and "ht" survives the first pass
C23_Witness ==
    /\ last_call.name = "normalize_text"
    /\ last_call.text = "ht@btp"
    /\ last_call.once = "ht"

(***************************************************************************)
(* Mode B: shutdown while a handler is in _forward_message.  The handler   *)
(* is taken from the await at line 252 on, with its MessageData in the     *)
(* cache; last_call.handler is its position, last_call.text and .media are *)
(* the message, last_call.sent is what the target was sent, and the other  *)
(* fields of last_call are those of main().                                *)
(***************************************************************************)

\* What the target has been sent: the call of the client and its text
NothingSent == [call |-> "none", text |-> None]

\* _send_cleaned_message lines 153-167, or forward_messages at lines 184-188:
\* media is sent with send_file and the cleaned text as caption (None when it
\* is empty), anything else with send_message and the cleaned text
SendCall(message_data, media) ==
    IF ~CLEAN_FORWARDED_TEXT
    THEN [call |-> "forward_messages", text |-> Some(message_data.original_text)]
    ELSE LET cleaned_text == message_data.cleaned_text[1]
         IN  IF media
             THEN [call |-> "send_file",
                   text |-> IF cleaned_text # "" THEN Some(cleaned_text) ELSE None]
             ELSE [call |-> "send_message", text |-> Some(cleaned_text)]

InitSpecShutdown ==
    /\ clock = 0
    /\ InitA
    /\ CACHE_MAX_SIZE = MaxCacheMaxSize
    /\ history = "loaded"
    /\ handled = << >>
    /\ forward_attempts = << >>
    /\ stats = [total_received |-> 1, duplicates_found |-> 0,
                unique_forwarded |-> 0, forward_errors |-> 0]
    /\ \E text \in TextsB, media \in BOOLEAN :
          /\ message_cache = << MessageData([message_id        |-> 1,
                                             text              |-> text,
                                             timestamp         |-> clock,
                                             original_message  |-> 1,
                                             source_channel_id |-> 1]).obj >>
          /\ last_call = [name |-> "main", at |-> "running", cause |-> "none",
                          shutdown |-> << >>, handler |-> "get_entity",
                          text |-> text, media |-> media, sent |-> NothingSent]

\* The event loop still runs the handler: main() has not returned
HandlerAt(pos) ==
    /\ last_call.name = "main"
    /\ last_call.at # "done"
    /\ last_call.handler = pos

\* success is False: self.stats["forward_errors"] += 1, the handler returns
ForwardFailed ==
    /\ stats' = [stats EXCEPT !.forward_errors = @ + 1]
    /\ last_call' = [last_call EXCEPT !.handler = "done"]
    /\ UNCHANGED forward_attempts

\* _forward_message: await self.client.get_entity(TARGET_CHANNEL)
H_GetEntity ==
    /\ HandlerAt("get_entity")
    /\ \E ok \in BOOLEAN :
          IF ok
          THEN /\ last_call' = [last_call EXCEPT !.handler = "send_get_entity"]
               /\ UNCHANGED << stats, forward_attempts >>
          ELSE ForwardFailed
    /\ UNCHANGED << clock, varsA, CACHE_MAX_SIZE, message_cache, history, handled >>

\* _send_cleaned_message: await self.client.get_entity(TARGET_CHANNEL), then
\* message_data.clean_text(...) cleans the text, storing the result in the
\* object, and an empty result returns False
H_SendGetEntity ==
    /\ HandlerAt("send_get_entity")
    /\ \E ok \in BOOLEAN :
          /\ message_cache' = IF ok /\ CLEAN_FORWARDED_TEXT
                               THEN << clean_text(message_cache[1]) >>
                               ELSE message_cache
          /\ IF ok /\ ForwardHasText(last_call.text)
             THEN /\ last_call' = [last_call EXCEPT !.handler = "send"]
                  /\ UNCHANGED << stats, forward_attempts >>
             ELSE ForwardFailed
    /\ UNCHANGED << clock, varsA, CACHE_MAX_SIZE, history, handled >>

\* await self.client.send_message(...): the target receives the message and
\* _forward_message calls message_data.mark_forwarded() and goes on to await
\* asyncio.sleep(FORWARD_DELAY_SECONDS), or the call raises
H_Send ==
    /\ HandlerAt("send")
    /\ \E ok \in BOOLEAN :
          IF ok
          THEN /\ forward_attempts' = Append(forward_attempts, message_cache[1].id)
               /\ message_cache' = << mark_forwarded(message_cache[1], clock) >>
               /\ last_call' = [last_call EXCEPT
                                  !.handler = "sleep",
                                  !.sent = SendCall(message_cache[1], last_call.media)]
               /\ UNCHANGED stats
          ELSE ForwardFailed /\ UNCHANGED message_cache
    /\ UNCHANGED << clock, varsA, CACHE_MAX_SIZE, history, handled >>

\* The pacing delay ends: return success; self.stats["unique_forwarded"] += 1
H_SleepDone ==
    /\ HandlerAt("sleep")
    /\ stats' = [stats EXCEPT !.unique_forwarded = @ + 1]
    /\ last_call' = [last_call EXCEPT !.handler = "done"]
    /\ UNCHANGED << clock, varsA, CACHE_MAX_SIZE, message_cache, history, handled,
                    forward_attempts >>

\* main() has returned and asyncio.run cancels the tasks that are left: the
\* handler gets CancelledError at its await, which 'except Exception' does
\* not catch, and ends there
H_Cancelled ==
    /\ last_call.name = "main"
    /\ last_call.at = "done"
    /\ last_call.handler \notin { "done", "cancelled" }
    /\ last_call' = [last_call EXCEPT !.handler = "cancelled"]
    /\ UNCHANGED << clock, varsA, varsB >>

NextShutdown ==
    \/ H_GetEntity
    \/ H_SendGetEntity
    \/ H_Send
    \/ H_SleepDone
    \/ H_Cancelled
    \/ \E cause \in StopCauses : M_RunStops(cause)
    \/ M_PrintStatistics
    \/ M_SaveFinalReport
    \/ M_LogError
    \/ M_Cleanup

SpecShutdown == InitSpecShutdown /\ [][NextShutdown]_vars

\* C24: when the process has halted, the handler that was in delivery or in
\* the pacing delay at the shutdown request has finished, and a message the
\* target received is counted in unique_forwarded.
C24_InFlightHandlerFinishes ==
    (/\ last_call.name = "main"
     /\ last_call.at = "done"
     /\ last_call.handler \in { "done", "cancelled" }) =>
        /\ last_call.handler = "done"
        /\ forward_attempts # << >> => stats.unique_forwarded = 1

(***************************************************************************)
(* Mode B: _is_duplicate on caches in the order the code appends them:     *)
(* the entries of the startup history load first, in the order             *)
(* iter_messages yields them (newest first), then the live messages in     *)
(* arrival order.                                                          *)
(***************************************************************************)

MaxHistoryLen == 2

MaxLiveLen == 2

TextsS ==
    { "alphas bravo charlie12345", "alphas bravo charlie12346",
      "delta echoes foxtrot golf" }

\* Seconds between two messages of the source channel
MessageGap == 10

\* The cache after a history load of h messages and l live messages with the
\* given texts; ids grow with the time of posting
CacheInAppendOrder(h, l, texts) ==
    [k \in 1..(h + l) |->
        IF k <= h
        THEN MessageData_init(h - k + 1, texts[k], 0 - k * MessageGap)
        ELSE MessageData_init(k, texts[k], (k - h) * MessageGap)]

InitSpecScan ==
    /\ clock = (MaxLiveLen + 1) * MessageGap
    /\ CACHE_MAX_SIZE = MaxCacheMaxSize
    /\ InitA
    /\ \E h \in 0..MaxHistoryLen, l \in 0..MaxLiveLen :
          \E texts \in [1..(h + l) -> TextsS] :
             message_cache = CacheInAppendOrder(h, l, texts)
    /\ stats = [total_received |-> 0, duplicates_found |-> 0,
                unique_forwarded |-> 0, forward_errors |-> 0]
    /\ history = "loaded"
    /\ handled = << >>
    /\ forward_attempts = << >>
    /\ last_call = NoCall

NextScan == \E text \in TextsS : Do_is_duplicate(text)

SpecScan == InitSpecScan /\ [][NextScan]_vars

\* The cached message has the incoming text's non-empty key and a sequence
\* ratio above the threshold
Qualifies(text, cached_msg) ==
    KeyMatches(text, cached_msg) /\ MeetsThresholdB(RatioB(text, cached_msg))

\* C25: the evidence _is_duplicate returns is that of the most recent
\* qualifying entry: no qualifying entry of the cache (of at most 50 entries
\* here, all of them scanned) has a later timestamp than the one reported;
\* also for a cache that the history load populated.
C25_MostRecentQualifyingFirst ==
    (last_call.name = "_is_duplicate" /\ last_call.result.dup) =>
        \A k \in 1..Len(message_cache) :
            Qualifies(last_call.text, message_cache[k]) =>
                message_cache[k].timestamp <= last_call.result.info.duplicate_time

(***************************************************************************)
(* Mode A: is_similar_message on drawn caches                              *)
(***************************************************************************)

MaxCacheA == 2

\* Texts of cached entries: is_similar_message records only texts whose
\* normalized form is non-empty
CachedTextsA == { "up a b c", "up a b c d", "up a b" }

\* The cache with the given texts, in ascending order of time: the first e
\* entries were recorded a whole window before now, the others after that
CacheOfTexts(texts, e, now) ==
    [k \in 1..Len(texts) |->
        [norm |-> normalize_text(texts[k]),
         ts   |-> IF k <= e THEN cutoff_time(now) ELSE cutoff_time(now) + 1,
         orig |-> texts[k]]]

InitSpecSimilar ==
    /\ clock = ClockStep
    /\ InitB
    /\ CACHE_MAX_SIZE = 0
    /\ tasks = << >>
    /\ delivered = << >>
    /\ \E texts \in UNION { [1..n -> CachedTextsA] : n \in 0..MaxCacheA } :
          \E e \in 0..Len(texts) :
             recent_messages = CacheOfTexts(texts, e, clock)
    /\ last_call = NoCall

\* duplicate_checker.is_similar_message(original_text, current_time)
Do_is_similar_message(m) ==
    /\ last_call = NoCall
    /\ LET r == is_similar_message(recent_messages, m.text, clock)
       IN  /\ recent_messages' = r.cache
           /\ last_call' = [name   |-> "is_similar_message",
                            text   |-> m.text,
                            before |-> recent_messages,
                            dup    |-> r.dup,
                            info   |-> r.info]
    /\ UNCHANGED << clock, tasks, delivered, varsB >>

NextSimilar == \E m \in MessagesA : Do_is_similar_message(m)

SpecSimilar == InitSpecSimilar /\ [][NextSimilar]_vars

\* The similarity of the text of the call to an entry
SimilarityA(cached) == calculate_similarity(normalize_text(last_call.text), cached.norm)

\* C26: a duplicate verdict of Mode A reports the first entry, in cache
\* order, whose similarity reaches the threshold, whatever later entries
\* score, and the cache it leaves is the cache before the call without the
\* expired entries: the incoming message is not inserted.
C26_FirstMatchNoInsert ==
    (last_call.name = "is_similar_message" /\ last_call.dup) =>
        LET cleaned == clean_old_messages(last_call.before, clock)
        IN  /\ recent_messages = cleaned
            /\ \E k \in 1..Len(cleaned) :
                  /\ MeetsThresholdA(SimilarityA(cleaned[k]))
                  /\ \A j \in 1..(k - 1) : ~MeetsThresholdA(SimilarityA(cleaned[j]))
                  /\ last_call.info.original_text = cleaned[k].orig
                  /\ last_call.info.similarity = SimilarityA(cleaned[k])

\* A duplicate was reported at an entry that a later entry outscores
C26_Witness ==
    /\ last_call.name = "is_similar_message"
    /\ last_call.dup
    /\ \E k \in 1..Len(recent_messages) :
          FracGT(SimilarityA(recent_messages[k]), last_call.info.similarity)

C28_NoSeparatorLines ==
    (/\ last_call.name = "clean_text_for_forward"
     /\ CLEAN_FORWARDED_TEXT
     /\ last_call.result # "") =>
        \A k \in 1..Len(SplitLines(last_call.result)) :
            ~IsSeparatorLine(SplitLines(last_call.result)[k])

(***************************************************************************)
(* create_comparison_key on texts of several lines: short lines first,     *)
(* then drawn lines                                                        *)
(***************************************************************************)

MaxShortLinesK == 4

MaxTailLinesK == 2

ShortLineK == "ab"

LinesK == { "ab", "alphas bravo charlie", "delta echoes foxtrot", "hotel india juliets" }

TextsKL ==
    { JoinWith([i \in 1..(k + Len(tail)) |->
                   IF i <= k THEN ShortLineK ELSE tail[i - k]], "\n") :
        k \in 0..MaxShortLinesK,
        tail \in UNION { [1..n -> LinesK] : n \in 1..MaxTailLinesK } }

InitSpecKeyLines ==
    /\ IdleProgram
    /\ \E text \in TextsKL : last_call = [name |-> "input", text |-> text]

NextKeyLines == Do_create_comparison_key

SpecKeyLines == InitSpecKeyLines /\ [][NextKeyLines]_vars

\* The first 3 lines of the cleaned text that are longer than 10 characters
\* after trimming, short lines skipped and not counted
FirstNonTrivialLines(text) ==
    Take(LongLines(SplitLines(clean_text_for_compare(text))), 3)

\* C29: the key of a text is the key built from the first 3 non-trivial
\* lines of its cleaned text, short lines being skipped without counting
\* towards the 3: it equals the key of the text made of those lines alone.
C29_KeyFromFirstNonTrivialLines ==
    last_call.name = "create_comparison_key" =>
        last_call.result =
            create_comparison_key(JoinWith(FirstNonTrivialLines(last_call.text), "\n"))

(***************************************************************************)
(* TextProcessor.is_duplicate on drawn pairs of texts and thresholds       *)
(***************************************************************************)

\* TextProcessor.is_duplicate(text1, text2, threshold):
\* (similarity >= threshold, similarity)
is_duplicate(text1, text2, threshold) ==
    LET similarity == tp_calculate_similarity(text1, text2)
    IN  [dup |-> FracGE(similarity, threshold), similarity |-> similarity]

TextsP ==
    { "alphas bravo charlie12345", "alphas bravo charlie67890",
      "alphas bravo charlie12346", "delta echoes foxtrot golf", "" }

\* Thresholds in (0, 1], the configured one among them
ThresholdsP == { << 1, 2 >>, ThresholdB, << 1, 1 >> }

InitSpecPredicate ==
    /\ IdleProgram
    /\ \E text1 \in TextsP, text2 \in TextsP, threshold \in ThresholdsP :
          last_call = [name |-> "input", text1 |-> text1, text2 |-> text2,
                       threshold |-> threshold]

\* self.text_processor.is_duplicate(text1, text2, threshold)
Do_tp_is_duplicate ==
    /\ last_call.name = "input"
    /\ last_call' = [name      |-> "is_duplicate",
                     text1     |-> last_call.text1,
                     text2     |-> last_call.text2,
                     threshold |-> last_call.threshold,
                     result    |-> is_duplicate(last_call.text1, last_call.text2,
                                                last_call.threshold)]
    /\ UNCHANGED << clock, varsA, varsB >>

NextPredicate == Do_tp_is_duplicate

SpecPredicate == InitSpecPredicate /\ [][NextPredicate]_vars

\* C30: TextProcessor.is_duplicate returns True exactly when the similarity
\* is strictly greater than the threshold, and so agrees, at the configured
\* threshold, with the comparison inside TelegramMonitor._is_duplicate.
C30_PredicateIsStrict ==
    last_call.name = "is_duplicate" =>
        /\ last_call.result.dup <=> FracGT(last_call.result.similarity, last_call.threshold)
        /\ last_call.threshold = ThresholdB =>
              (last_call.result.dup <=> MeetsThresholdB(last_call.result.similarity))

(***************************************************************************)
(* Mode B: what a step may do to the cache                                 *)
(***************************************************************************)

RECURSIVE IsSubSeqOf(_, _)
\* p is q with some of its entries removed and the others left in their order
IsSubSeqOf(p, q) ==
    IF p = << >> THEN TRUE
    ELSE IF q = << >> THEN FALSE
    ELSE IF Head(p) = Head(q) THEN IsSubSeqOf(Tail(p), Tail(q))
    ELSE IsSubSeqOf(p, Tail(q))

\* C31: a step changes the Mode B cache only by removing entries and by
\* appending at the end one entry for a message that had none: the entries
\* that stay keep their order and every one of their fields, also while the
\* message they were made for is cleaned and forwarded.
C31_CacheOnlyAppendsAndEvicts ==
    [][ \/ IsSubSeqOf(message_cache', message_cache)
        \/ /\ message_cache' # << >>
           /\ EntriesFor(message_cache, message_cache'[Len(message_cache')].id) = 0
           /\ IsSubSeqOf(SubSeq(message_cache', 1, Len(message_cache') - 1),
                         message_cache) ]_vars

(***************************************************************************)
(* Mode B: what the startup history load leaves in the cache               *)
(***************************************************************************)

\* The position of the first yielded message that is outside the window, or
\* one past the last message when there is none
FirstOutside(messages, now) ==
    LET outside == { k \in 1..Len(messages) : ~(messages[k].date > time_threshold(now)) }
    IN  IF outside = {} THEN Len(messages) + 1
        ELSE CHOOSE k \in outside : \A j \in outside : k <= j

\* The yielded messages that are to be cached: before the first one outside
\* the window, with a text
ToBeCached(messages, now) ==
    { k \in 1..(FirstOutside(messages, now) - 1) : messages[k].text # "" }

\* C32: when no call of the source collaborator fails, the startup history
\* load adds to the cache exactly one entry for every yielded message that
\* has a text and is newer than now - window, up to the first yielded message
\* outside the window, and no other entry.
C32_HistoryLoadCachesWindow ==
    [][ \A messages \in HistoriesB :
          B_LoadHistoryUpTo(messages, Len(messages) + 1) =>
             LET cached == ToBeCached(messages, clock)
                 added  == SubSeq(message_cache', Len(message_cache) + 1,
                                  Len(message_cache'))
                 EntryFor(k) == MessageData_init(messages[k].id, messages[k].text,
                                                 messages[k].date)
             IN  /\ IsPrefix(message_cache, message_cache')
                 /\ Len(added) = Cardinality(cached)
                 /\ \A k \in cached :
                       Cardinality({ j \in 1..Len(added) : added[j] = EntryFor(k) })
                         = Cardinality({ i \in cached : messages[i] = messages[k] }) ]_vars

(***************************************************************************)
(* Mode B: the counters of TelegramMonitor.stats                           *)
(***************************************************************************)

\* C33: every run of _handle_new_message adds one to total_received and one
\* to exactly one of duplicates_found, unique_forwarded and forward_errors:
\* between handlers total_received is the sum of the three, and no counter
\* ever decreases.
C33_StatsConservation ==
    [][ /\ stats'.total_received
             = stats'.duplicates_found + stats'.unique_forwarded + stats'.forward_errors
        /\ \A counter \in DOMAIN stats : stats'[counter] >= stats[counter]
        /\ HandlerStep =>
              /\ stats'.total_received = stats.total_received + 1
              /\ \E counted \in { "duplicates_found", "unique_forwarded", "forward_errors" } :
                    /\ stats'[counted] = stats[counted] + 1
                    /\ \A other \in DOMAIN stats \ { "total_received", counted } :
                          stats'[other] = stats[other] ]_vars

(***************************************************************************)
(* Mode B: a message with media and no text left after cleaning            *)
(***************************************************************************)

\* The step in which _send_cleaned_message cleans the text of the message
CleansText ==
    /\ HandlerAt("send_get_entity")
    /\ message_cache[1].cleaned_text = None
    /\ message_cache'[1].cleaned_text # None

\* C34: with CLEAN_FORWARDED_TEXT enabled, when the text of a unique message
\* that carries media is empty or is empty after cleaning,
\* _send_cleaned_message goes on to send the media without a caption, and no
\* forward error is counted for it.
C34_MediaWithoutTextIsSent ==
    [][ ( /\ CLEAN_FORWARDED_TEXT
          /\ CleansText
          /\ last_call.media
          /\ Strip(message_cache'[1].cleaned_text[1]) = "" )
        => /\ last_call'.handler = "send"
           /\ stats'.forward_errors = stats.forward_errors ]_vars

(***************************************************************************)
(* Mode B: _is_duplicate applied to the text of the only cached entry, the *)
(* entry being inside the window and the scan cap                          *)
(***************************************************************************)

\* Pieces put in front of the body of a text
MaxFragsV == 3

\* Pieces of a text: parts of a comparison pattern, the pattern, a ticker, a
\* separator, a line feed
FragsV == { "[pro", "[promo]", "mo]", "AB", "-", "\n" }

\* The body of a text: enough for a key, or nothing
BodiesV == { "alphas bravo charlie", "" }

TextsV ==
    { Concat(parts) \o body :
        parts \in UNION { [1..n -> FragsV] : n \in 0..MaxFragsV }, body \in BodiesV }

InitSpecVerbatim ==
    /\ clock = 0
    /\ CACHE_MAX_SIZE = MaxCacheMaxSize
    /\ InitA
    /\ \E text \in TextsV : message_cache = << MessageData_init(1, text, clock) >>
    /\ stats = [total_received |-> 0, duplicates_found |-> 0,
                unique_forwarded |-> 0, forward_errors |-> 0]
    /\ history = "loaded"
    /\ handled = << >>
    /\ forward_attempts = << >>
    /\ last_call = NoCall

\* The cached text arrives again, verbatim
NextVerbatim == Do_is_duplicate(message_cache[1].original_text)

SpecVerbatim == InitSpecVerbatim /\ [][NextVerbatim]_vars

\* C35: the key computed for a cached entry (its text cleaned, then keyed,
\* which cleans it again) is the key computed for the same text as an
\* incoming message; cleaning a cleaned text changes nothing; and a text with
\* a non-empty key that is repeated verbatim is classified duplicate.
C35_CachedKeyIsIncomingKey ==
    last_call.name = "_is_duplicate" =>
        LET text == last_call.text
            once == clean_text_for_compare(text)
        IN  /\ create_comparison_key(once) = create_comparison_key(text)
            /\ clean_text_for_compare(once) = once
            /\ create_comparison_key(text) # "" => last_call.result.dup
====
